---------------------------- MODULE Spec2Model ----------------------------
(***************************************************************************)
(* Front-matter extraction for Journal of Computational Science PDFs.      *)
(*                                                                         *)
(* Sources modelled:                                                       *)
(*   src/data/code/parsing/parse_jocs_fallback_pdfplumber.py               *)
(*   src/data/code/parsing/parse_jocs_docling.py                           *)
(*                                                                         *)
(* Text is modelled as TLA+ strings, read character by character with      *)
(* SubSeq.  A module may hold ASCII only, so the non-ASCII characters of   *)
(* the source are written with these stand-ins, which occur nowhere else   *)
(* in the model's alphabet:                                                *)
(*     U+2217 ASTERISK OPERATOR      "~"                                   *)
(*     U+204E LOW ASTERISK           "|"                                   *)
(*     U+2013 EN DASH                "="                                   *)
(*     superscript digits 0..9       the characters of SupChars            *)
(* The letters of the range A-grave..z-caron are outside the alphabet.     *)
(* Coordinates and font sizes are integers.                                *)
(***************************************************************************)
EXTENDS Integers, Sequences, FiniteSets, TLC

(***************************************************************************)
(* State.  Each function is run as a state machine of its own on inputs    *)
(* drawn from bounded sets; the variables of the machines that do not run  *)
(* keep their idle values.                                                 *)
(***************************************************************************)
VARIABLES
    \* parse_authors_with_markers
    mk_lines,       \* author_lines
    mk_tokens,      \* tokens
    mk_i,           \* the number of tokens the loop has processed
    mk_st,          \* [cur, authors]
    mk_out,         \* the list returned
    mk_pc,
    \* parse_authors_without_markers
    um_text,        \* author_text, as passed
    um_parts,       \* parts
    um_i,           \* the number of parts the loop has processed
    um_st,          \* [authors, aff]: authors and extracted_aff
    um_out,         \* the pair returned
    um_pc,
    \* fix_merged_text
    fx_in,          \* text, as passed
    fx_out,         \* the string returned
    fx_pc,
    \* cluster_lines
    cl_words,       \* the words processed so far, in input order
    cl_buckets,     \* buckets
    cl_lines,       \* the list returned
    cl_pc,
    \* extract_kw_abs_from_lines
    ka_lines,       \* lines
    ka_idx,         \* [kw, abs, intro]: kw_idx, abs_idx, intro_idx; 0 for None
    ka_out,         \* [keywords, abstract]
    ka_pc,
    \* parse_front_matter_page1 and the rest of main's loop body
    fm_lines,       \* lines
    fm_H,           \* the page height
    fm_top,         \* top
    fm_cands,       \* title_candidates
    fm_title,       \* title_lines
    fm_zone,        \* zone
    fm_split,       \* [author_lines, aff_lines, has_markers]
    fm_rec,         \* the record written for the document
    fm_pc,
    \* parse_jocs_docling: main and its worker processes
    oc_i,           \* the index in files of the document main is at
    oc_pc,          \* where main is in its loop body
    oc_wpc,         \* where the worker of the current document is
    oc_q,           \* the messages in the queue of the current document
    oc_file,        \* per document: the state of its output JSON
    oc_log,         \* per document: the line main logged for it
    \* parse_front_matter_page1: the metadata-region bound absinfo_y
    ab_lines,       \* lines
    ab_H,           \* the page height
    ab_r,           \* the value of the "or" expression so far, <<>> for None
    ab_y100,        \* absinfo_y, in hundredths
    ab_pc,
    \* parse_affiliations_with_markers
    af_lines,       \* aff_lines
    af_i,           \* the number of lines the loop has processed
    af_st,          \* [affiliations, last_key, stopped]
    af_out,         \* the dict returned
    af_pc,
    \* main, run more than once on one document
    tw_words,       \* the words of the first page of the document
    tw_H,           \* the page height
    tw_seeds,       \* per run so far: the interpreter's string-hash seed
    tw_out,         \* per finished run: the record written
    tw_pc,
    \* flatten_authors
    fl_authors,     \* authors
    fl_i,           \* the number of authors the loop has processed
    fl_parts,       \* parts
    fl_out,         \* the string returned
    fl_pc           \* "loop", "done"; "idle" when another machine runs

mkVars == <<mk_lines, mk_tokens, mk_i, mk_st, mk_out, mk_pc>>
umVars == <<um_text, um_parts, um_i, um_st, um_out, um_pc>>
fxVars == <<fx_in, fx_out, fx_pc>>
clVars == <<cl_words, cl_buckets, cl_lines, cl_pc>>
kaVars == <<ka_lines, ka_idx, ka_out, ka_pc>>
fmVars == <<fm_lines, fm_H, fm_top, fm_cands, fm_title, fm_zone, fm_split,
            fm_rec, fm_pc>>
ocVars == <<oc_i, oc_pc, oc_wpc, oc_q, oc_file, oc_log>>
abVars == <<ab_lines, ab_H, ab_r, ab_y100, ab_pc>>
afVars == <<af_lines, af_i, af_st, af_out, af_pc>>
twVars == <<tw_words, tw_H, tw_seeds, tw_out, tw_pc>>
flVars == <<fl_authors, fl_i, fl_parts, fl_out, fl_pc>>
vars ==
    <<mkVars, umVars, fxVars, clVars, kaVars, fmVars, ocVars, abVars, afVars, twVars,
      flVars>>

(***************************************************************************)
(* Characters and character classes                                        *)
(***************************************************************************)
Ch(s, i) == SubSeq(s, i, i)

CharSet(s) == {Ch(s, i) : i \in 1..Len(s)}

Lowers == "abcdefghijklmnopqrstuvwxyz"
Uppers == "ABCDEFGHIJKLMNOPQRSTUVWXYZ"
Digits == "0123456789"
SupChars == "<!@#$%^&{}"

LowerSet == CharSet(Lowers)
UpperSet == CharSet(Uppers)
DigitSet == CharSet(Digits)
SupSet == CharSet(SupChars)
LetterSet == LowerSet \cup UpperSet
\* \w of the re module, on the alphabet of the model
WordSet == LetterSet \cup DigitSet \cup {"_"}
\* \s
WS == {" ", "\t"}
AsteriskSet == {"*", "~", "|"}

IndexIn(s, c) == CHOOSE i \in 1..Len(s) : Ch(s, i) = c

LowerMap == [c \in UpperSet |-> Ch(Lowers, IndexIn(Uppers, c))]
UpperMap == [c \in LowerSet |-> Ch(Uppers, IndexIn(Lowers, c))]

ToLower(c) == IF c \in UpperSet THEN LowerMap[c] ELSE c
ToUpper(c) == IF c \in LowerSet THEN UpperMap[c] ELSE c

Min(S) == CHOOSE x \in S : \A y \in S : x <= y
Max(S) == CHOOSE x \in S : \A y \in S : x >= y

RECURSIVE Concat(_, _, _)
\* pieces[lo] \o ... \o pieces[hi], built by halves; "" when lo > hi
Concat(pieces, lo, hi) ==
    IF lo > hi THEN ""
    ELSE IF lo = hi THEN pieces[lo]
    ELSE Concat(pieces, lo, (lo + hi) \div 2) \o Concat(pieces, (lo + hi) \div 2 + 1, hi)

\* str.lower()
LowerStr(s) == Concat([i \in 1..Len(s) |-> ToLower(Ch(s, i))], 1, Len(s))

\* the positions of s whose character is not in cs
Kept(s, cs) == {i \in 1..Len(s) : Ch(s, i) \notin cs}

\* str.lstrip(chars)
LStrip(s, cs) == IF Kept(s, cs) = {} THEN "" ELSE SubSeq(s, Min(Kept(s, cs)), Len(s))

\* str.rstrip(chars)
RStrip(s, cs) == IF Kept(s, cs) = {} THEN "" ELSE SubSeq(s, 1, Max(Kept(s, cs)))

\* str.strip(chars)
StripChars(s, cs) == RStrip(LStrip(s, cs), cs)

\* str.strip()
Strip(s) == StripChars(s, WS)

\* re.sub(r"[...]", "", s) for the class cs
RemoveChars(s, cs) ==
    Concat([i \in 1..Len(s) |-> IF Ch(s, i) \in cs THEN "" ELSE Ch(s, i)], 1, Len(s))

\* re.sub(r"\s+", "", s)
RemoveWS(s) == RemoveChars(s, WS)

\* re.sub(r"\s+", " ", s): each run of whitespace gives one space, at the
\* place of its first character
CollapseWS(s) ==
    Concat([i \in 1..Len(s) |->
                IF Ch(s, i) \notin WS THEN Ch(s, i)
                ELSE IF i > 1 /\ Ch(s, i - 1) \in WS THEN "" ELSE " "],
           1, Len(s))

RECURSIVE SplitWS(_)
\* str.split(): the maximal runs of non-whitespace characters
SplitWS(s) ==
    LET t == LStrip(s, WS) IN
    IF t = "" THEN <<>>
    ELSE LET n == CHOOSE k \in 1..Len(t) :
                    /\ \A j \in 1..k : Ch(t, j) \notin WS
                    /\ (k = Len(t) \/ Ch(t, k + 1) \in WS)
         IN <<SubSeq(t, 1, n)>> \o SplitWS(SubSeq(t, n + 1, Len(t)))

RECURSIVE Join(_, _)
\* sep.join(parts)
Join(parts, sep) ==
    IF parts = <<>> THEN ""
    ELSE IF Len(parts) = 1 THEN parts[1]
    ELSE parts[1] \o sep \o Join(Tail(parts), sep)

\* sub in s
Contains(s, sub) ==
    \E i \in 1..(Len(s) - Len(sub) + 1) : SubSeq(s, i, i + Len(sub) - 1) = sub

StartsWith(s, pre) == Len(s) >= Len(pre) /\ SubSeq(s, 1, Len(pre)) = pre

(***************************************************************************)
(* Regular expressions.  A pattern is a sequence of elements; an element   *)
(* is a character class with a quantifier ("1", "?", "*"), a word boundary *)
(* ("b"), the start ("^") or the end ("$") of the text.  A regex is a set  *)
(* of patterns (its alternatives).                                         *)
(***************************************************************************)
One(S) == <<[k |-> "1", s |-> S, neg |-> FALSE]>>
Opt(S) == <<[k |-> "?", s |-> S, neg |-> FALSE]>>
Star(S) == <<[k |-> "*", s |-> S, neg |-> FALSE]>>
Plus(S) == One(S) \o Star(S)
\* "." and ".*": any character but a newline
Dot == <<[k |-> "1", s |-> {"\n"}, neg |-> TRUE]>>
DotStar == <<[k |-> "*", s |-> {"\n"}, neg |-> TRUE]>>
Bnd == <<[k |-> "b", s |-> {}, neg |-> FALSE]>>
Bol == <<[k |-> "^", s |-> {}, neg |-> FALSE]>>
Eol == <<[k |-> "$", s |-> {}, neg |-> FALSE]>>

\* the characters a pattern character matches under re.I
CI(c) == {ToLower(c), ToUpper(c)}

\* a literal word, case-sensitive
Lit(w) == [i \in 1..Len(w) |-> One({Ch(w, i)})[1]]
\* a literal word under re.I
LitI(w) == [i \in 1..Len(w) |-> One(CI(Ch(w, i)))[1]]
\* a word under re.I whose letters may be separated by whitespace: A\s*B\s*C
SpacedI(w) ==
    [i \in 1..(2 * Len(w) - 1) |->
        IF i % 2 = 1 THEN One(CI(Ch(w, (i + 1) \div 2)))[1] ELSE Star(WS)[1]]

IsWordAt(s, i) == i >= 1 /\ i <= Len(s) /\ Ch(s, i) \in WordSet
\* \b holds before position i
Boundary(s, i) == IsWordAt(s, i - 1) # IsWordAt(s, i)

ElemOk(e, s, i) == i <= Len(s) /\ ((Ch(s, i) \in e.s) # e.neg)

\* the positions at which a match of the element e that starts at position i
\* may end (the position just after its last character)
After(e, s, i) ==
    CASE e.k = "1" -> IF ElemOk(e, s, i) THEN {i + 1} ELSE {}
      [] e.k = "?" -> {i} \cup (IF ElemOk(e, s, i) THEN {i + 1} ELSE {})
      [] e.k = "*" -> {j \in i..(Len(s) + 1) : \A y \in i..(j - 1) : ElemOk(e, s, y)}
      [] e.k = "b" -> IF Boundary(s, i) THEN {i} ELSE {}
      [] e.k = "^" -> IF i = 1 THEN {i} ELSE {}
      [] e.k = "$" -> IF i = Len(s) + 1 THEN {i} ELSE {}

RECURSIVE Ends(_, _, _, _)
\* the positions at which a match of p[k..] that starts at position i may end
Ends(p, k, s, i) ==
    IF k > Len(p) THEN {i}
    ELSE UNION {Ends(p, k + 1, s, j) : j \in After(p[k], s, i)}

\* some alternative of re matches at position i
MatchAt(re, s, i) == \E p \in re : Ends(p, 1, s, i) # {}

\* regex.search(s) is not None
Search(re, s) == \E i \in 1..(Len(s) + 1) : MatchAt(re, s, i)

\* regex.search(s).start(), 1-based; 0 when there is no match
SearchStart(re, s) ==
    IF Search(re, s) THEN Min({i \in 1..(Len(s) + 1) : MatchAt(re, s, i)}) ELSE 0

\* regex.match(s) is not None
Match(re, s) == MatchAt(re, s, 1)

\* regex.fullmatch(s) is not None
FullMatch(re, s) == \E p \in re : (Len(s) + 1) \in Ends(p, 1, s, 1)

(***************************************************************************)
(* The regular expressions of parse_jocs_fallback_pdfplumber.py            *)
(***************************************************************************)
\* the alternatives w1|w2|... under re.I
AltI(ws) == {LitI(w) : w \in ws}

RE_ARTINFO ==
    { LitI("article") \o Plus(WS) \o LitI("info"),
      SpacedI("article") \o Plus(WS) \o SpacedI("info") }

RE_ABS_HDR == { LitI("abstract"), SpacedI("abstract") }

RE_STOP_ANY ==
    { LitI("article") \o Plus(WS) \o LitI("info"),
      LitI("abstract"),
      LitI("keywords"),
      LitI("key") \o Star(WS) \o LitI("words"),
      LitI("article") \o Plus(WS) \o LitI("history"),
      LitI("received"),
      LitI("accepted"),
      LitI("available") \o Plus(WS) \o LitI("online") }

RE_INTRO ==
    { pre \o w \o Bnd :
        pre \in {Bol, One(WS)},
        w \in {LitI("introduction"),
               Lit("1.") \o Star(WS) \o LitI("introduction")} }

RE_KEYWORDS_HDR ==
    { Bnd \o LitI("key") \o Star(WS) \o LitI("words") \o Bnd,
      Bnd \o LitI("keywords") \o Bnd }

AffCueWords ==
    {"department", "school", "institute", "faculty", "center", "centre",
     "laboratory", "lab", "university", "universit", "college", "hospital",
     "academy", "iit", "mit", "eth", "cnrs", "inria"}

AFF_CUES ==
    { Bnd \o p \o Bnd :
        p \in AltI(AffCueWords)
              \cup { LitI("dept.") \o Opt({" "}),
                     LitI("research") \o Plus(WS) \o LitI("group") } }

AFF_CUES_MERGED ==
    AltI({"department", "school", "institute", "faculty", "center", "centre",
          "laboratory", "university", "college", "hospital", "academy"})

(***************************************************************************)
(* fix_merged_text                                                         *)
(***************************************************************************)
\* SubLowerUpper with count=1: only the first boundary gets its space
SubLowerUpper_First(s) ==
    LET hit == {j \in 1..(Len(s) - 1) : Ch(s, j) \in LowerSet /\ Ch(s, j + 1) \in UpperSet}
    IN IF hit = {} THEN s
       ELSE SubSeq(s, 1, Min(hit)) \o " " \o SubSeq(s, Min(hit) + 1, Len(s))

\* s with a space put in after each position of at
SpaceAfter(s, at) ==
    Concat([i \in 1..Len(s) |-> IF i \in at THEN Ch(s, i) \o " " ELSE Ch(s, i)],
           1, Len(s))

\* re.sub(r'([a-z])([A-Z])', r'\1 \2', s): two matches never overlap, as the
\* second character of a match is not a lowercase letter
SubLowerUpper(s) ==
    SpaceAfter(s, {j \in 1..(Len(s) - 1) :
                      Ch(s, j) \in LowerSet /\ Ch(s, j + 1) \in UpperSet})

\* the alternatives of the second substitution, in the order the regex tries them
GluedWords ==
    <<"of", "and", "the", "for", "in", "at", "to", "with", "from", "by",
      "de", "la", "le", "des", "du">>

\* the alternatives of (the|a|an), in order
Articles == <<"the", "a", "an">>

\* whether s holds word w (under re.I) at position i
WordAtI(s, i, w) ==
    i + Len(w) - 1 <= Len(s) /\ LowerStr(SubSeq(s, i, i + Len(w) - 1)) = w

\* \b(of|and|...)([A-Z]) under re.I at position i: the index in GluedWords of
\* the first alternative that matches, 0 when none does.  Under re.I the class
\* [A-Z] matches a letter of either case.
GluedAt(s, i) ==
    LET ok(j) == /\ WordAtI(s, i, GluedWords[j])
                 /\ i + Len(GluedWords[j]) <= Len(s)
                 /\ Ch(s, i + Len(GluedWords[j])) \in LetterSet
    IN IF Boundary(s, i) /\ \E j \in 1..Len(GluedWords) : ok(j)
       THEN Min({j \in 1..Len(GluedWords) : ok(j)})
       ELSE 0

\* re.sub(r'\b(of|and|...|du)([A-Z])', r'\1 \2', s, flags=re.I): a match is
\* made of word characters and starts at a word boundary, so two matches
\* never overlap
SubGlued(s) ==
    SpaceAfter(s, {i + Len(GluedWords[GluedAt(s, i)]) - 1 :
                      i \in {k \in 1..Len(s) : GluedAt(s, k) # 0}})

\* \b(of)(the|a|an)\b under re.I at position i: the index in Articles of the
\* first alternative that matches, 0 when none does
OfArticleAt(s, i) ==
    LET ok(j) == /\ WordAtI(s, i + 2, Articles[j])
                 /\ Boundary(s, i + 2 + Len(Articles[j]))
    IN IF Boundary(s, i) /\ WordAtI(s, i, "of") /\ \E j \in 1..Len(Articles) : ok(j)
       THEN Min({j \in 1..Len(Articles) : ok(j)})
       ELSE 0

\* re.sub(r'\b(of)(the|a|an)\b', r'\1 \2', s, flags=re.I): a match is made
\* of word characters between two word boundaries
SubOfArticle(s) ==
    SpaceAfter(s, {i + 1 : i \in {k \in 1..Len(s) : OfArticleAt(s, k) # 0}})

\* fix_merged_text(text)
fix_merged_text(text) ==
    LET t == Strip(text)
        words == SplitWS(t)
    IN IF text = "" THEN ""
       ELSE IF Len(words) >= 3 THEN t
       ELSE IF Len(t) > 15 /\ Len(words) <= 2
            THEN SubOfArticle(SubGlued(SubLowerUpper(t)))
       ELSE IF Len(words) = 1 /\ Len(t) > 10 THEN SubLowerUpper(t)
       ELSE t

(***************************************************************************)
(* is_likely_affiliation, is_header_banner                                 *)
(***************************************************************************)
aff_keywords ==
    {"department", "school", "institute", "faculty", "center", "centre",
     "laboratory", "university", "college", "hospital", "academy", "iit",
     "mit", "eth", "cnrs", "inria"}

\* \d{5,6}
RE_ZIP == { One(DigitSet) \o One(DigitSet) \o One(DigitSet) \o One(DigitSet)
            \o One(DigitSet) \o Opt(DigitSet) }

RE_COUNTRY ==
    { Bnd \o p \o Bnd :
        p \in AltI({"usa", "uk", "india", "china", "germany", "france", "japan",
                    "canada", "australia"}) }

\* is_likely_affiliation(text)
is_likely_affiliation(text) ==
    LET t == Strip(text)
        t_collapsed == LowerStr(RemoveWS(t))
    IN /\ text # ""
       /\ \/ \E kw \in aff_keywords : Contains(t_collapsed, kw)
          \/ Search(RE_ZIP, t)
          \/ Search(RE_COUNTRY, t)

JOCS == LitI("journal") \o Plus(WS) \o LitI("of") \o Plus(WS)
        \o LitI("computational") \o Plus(WS) \o LitI("science")

Digit4 == One(DigitSet) \o One(DigitSet) \o One(DigitSet) \o One(DigitSet)

\* ^journal\s+of\s+computational\s+science\s*$
RE_BANNER_NAME == { Bol \o JOCS \o Star(WS) \o Eol }

\* journal\s+of\s+computational\s+science\s+\d+\s*\(\d{4}\)
RE_BANNER_VOLUME ==
    { JOCS \o Plus(WS) \o Plus(DigitSet) \o Star(WS) \o One({"("}) \o Digit4
      \o One({")"}) }

\* ^\d+\s*\(\d{4}\)\s*\d+[\s–\-]*\d*$
RE_BANNER_PAGES ==
    { Bol \o Plus(DigitSet) \o Star(WS) \o One({"("}) \o Digit4 \o One({")"})
      \o Star(WS) \o Plus(DigitSet) \o Star(WS \cup {"=", "-"}) \o Star(DigitSet)
      \o Eol }

banner_patterns ==
    {"sciencedirect", "contents lists available", "contentslistsavailable",
     "journal homepage", "journalhomepage", "www.elsevier.com",
     "elsevier.com/locate", "check for updates", "checkforupdates", "crossmark"}

\* is_header_banner(text)
is_header_banner(text) ==
    LET t == Strip(text)
        t_lower == LowerStr(t)
        t_collapsed == RemoveWS(t_lower)
    IN /\ text # ""
       /\ Len(t) >= 3
       /\ \/ Contains(t_collapsed, "journalofcomputationalscience")
          \/ StartsWith(t_lower, "journal of computational science")
          \/ Match(RE_BANNER_NAME, t_lower)
          \/ Search(RE_BANNER_VOLUME, t_lower)
          \/ Match(RE_BANNER_PAGES, t)
          \/ \E pat \in banner_patterns :
                Contains(t_collapsed, pat) \/ Contains(t_lower, pat)
          \/ t_collapsed \in {"sciencedirect", "elsevier"}

(***************************************************************************)
(* Lines, tokens and the marker-based author parser                        *)
(***************************************************************************)
\* a Line as cluster_lines builds it
MkLine(y, text, size) == [y |-> y, text |-> text, max_size |-> size]

\* the single-character tokens [,.*] and the two other asterisks
PunctSet == {",", "."} \cup AsteriskSet

\* the characters a token is made of
TokenChars == LetterSet \cup DigitSet \cup SupSet \cup PunctSet

\* the length of the longest run of characters of cs at the head of s
RunLen(s, cs) ==
    IF \A j \in 1..Len(s) : Ch(s, j) \in cs THEN Len(s)
    ELSE Min({j \in 1..Len(s) : Ch(s, j) \notin cs}) - 1

RECURSIVE Tokenize(_)
\* re.findall(r"[A-Za-z...]+|[0-9]+|[superscript digit]|[,.*...]", s)
Tokenize(s) ==
    IF s = "" THEN <<>>
    ELSE LET c == Ch(s, 1) IN
         IF c \in LetterSet
         THEN LET n == RunLen(s, LetterSet) IN
              <<SubSeq(s, 1, n)>> \o Tokenize(SubSeq(s, n + 1, Len(s)))
         ELSE IF c \in DigitSet
         THEN LET n == RunLen(s, DigitSet) IN
              <<SubSeq(s, 1, n)>> \o Tokenize(SubSeq(s, n + 1, Len(s)))
         ELSE IF c \in SupSet \cup PunctSet
         THEN <<c>> \o Tokenize(Tail(s))
         ELSE LET n == RunLen(s, CharSet(s) \ TokenChars) IN
              Tokenize(SubSeq(s, n + 1, Len(s)))

RECURSIVE extract_tokens_from_lines(_)
extract_tokens_from_lines(lines) ==
    IF lines = <<>> THEN <<>>
    ELSE Tokenize(lines[1].text) \o extract_tokens_from_lines(Tail(lines))

\* code-point order of the characters markers are made of
OrdChars == Digits \o Uppers \o Lowers
Ord(c) == IndexIn(OrdChars, c)

RECURSIVE StrLess(_, _)
\* a < b for str
StrLess(a, b) ==
    IF b = "" THEN FALSE
    ELSE IF a = "" THEN TRUE
    ELSE IF Ch(a, 1) = Ch(b, 1) THEN StrLess(Tail(a), Tail(b))
    ELSE Ord(Ch(a, 1)) < Ord(Ch(b, 1))

RECURSIVE HashOrder(_, _)
\* list(S) for a set of str: the order in which the set is iterated, which
\* changes with the string-hash seed of the interpreter
HashOrder(S, seed) ==
    IF S = {} THEN <<>>
    ELSE LET m == CHOOSE x \in S :
                    \A y \in S : x = y \/ (IF seed = 0 THEN StrLess(x, y) ELSE StrLess(y, x))
         IN <<m>> \o HashOrder(S \ {m}, seed)

\* sorted(S) left out: the set in its iteration order under the seed of the
\* current run
Sorted_HashOrder(S) ==
    HashOrder(S, IF tw_seeds = <<>> THEN 0 ELSE tw_seeds[Len(tw_seeds)])

RECURSIVE Sorted(_)
\* sorted(S) for a set of str
Sorted(S) ==
    IF S = {} THEN <<>>
    ELSE LET m == CHOOSE x \in S : \A y \in S : x = y \/ StrLess(x, y)
         IN <<m>> \o Sorted(S \ {m})

\* SupToDigit without the translation
SupToDigit_Identity(c) == c

\* str.translate(SUP_TO_DIGIT) of one character
SupToDigit(c) == IF c \in SupSet THEN Ch(Digits, IndexIn(SupChars, c)) ELSE c

\* DigitToSup without the translation
DigitToSup_Identity(c) == c

\* str.translate(DIGIT_TO_SUP) of one character
DigitToSup(c) == IF c \in DigitSet THEN Ch(SupChars, IndexIn(Digits, c)) ELSE c

NewCur == [name_parts |-> <<>>, markers |-> {}, corresponding |-> FALSE]

finalize_author(cur) ==
    [name |-> fix_merged_text(Strip(Join(cur.name_parts, " "))),
     markers |-> Sorted(cur.markers),
     corresponding |-> cur.corresponding]

\* the authors list after "finalize, and append unless empty or an affiliation"
Emit(authors, cur) ==
    LET a == finalize_author(cur) IN
    IF a.name # "" /\ ~is_likely_affiliation(a.name)
    THEN Append(authors, a) ELSE authors

\* one iteration of the token loop of parse_authors_with_markers on the state
\* st = [cur, authors]
MarkerStep(st, tok) ==
    IF tok = ","
    THEN IF st.cur.name_parts # <<>>
         THEN [cur |-> NewCur, authors |-> Emit(st.authors, st.cur)]
         ELSE st
    ELSE IF tok \in AsteriskSet
    THEN [st EXCEPT !.cur.corresponding = TRUE]
    ELSE IF Len(tok) = 1 /\ tok \in LowerSet
    THEN [st EXCEPT !.cur.markers = @ \cup {tok}]
    ELSE IF tok # "" /\ \A j \in 1..Len(tok) : Ch(tok, j) \in DigitSet
    THEN [st EXCEPT !.cur.markers = @ \cup {tok}]
    ELSE IF Len(tok) = 1 /\ tok \in SupSet
    THEN [st EXCEPT !.cur.markers = @ \cup {SupToDigit(tok)}]
    ELSE [st EXCEPT !.cur.name_parts = Append(@, tok)]

\* the end of parse_authors_with_markers: the pending accumulator is finalized
MarkerFinish(st) ==
    IF st.cur.name_parts # <<>> THEN Emit(st.authors, st.cur) ELSE st.authors

RECURSIVE MarkerLoop(_, _)
MarkerLoop(st, toks) ==
    IF toks = <<>> THEN st ELSE MarkerLoop(MarkerStep(st, toks[1]), Tail(toks))

parse_authors_with_markers(author_lines) ==
    MarkerFinish(MarkerLoop([cur |-> NewCur, authors |-> <<>>],
                            extract_tokens_from_lines(author_lines)))

(***************************************************************************)
(* The unmarked author parser                                              *)
(***************************************************************************)
RECURSIVE SplitOn(_, _)
\* s.split(c) for a single character c
SplitOn(s, c) ==
    IF \A j \in 1..Len(s) : Ch(s, j) # c THEN <<s>>
    ELSE LET n == Min({j \in 1..Len(s) : Ch(s, j) = c}) IN
         <<SubSeq(s, 1, n - 1)>> \o SplitOn(SubSeq(s, n + 1, Len(s)), c)

\* re.split(r"\s*,\s*", s): the whitespace around each comma goes with it
SplitCommas(s) ==
    LET raw == SplitOn(s, ",") IN
    [j \in 1..Len(raw) |->
        LET a == IF j > 1 THEN LStrip(raw[j], WS) ELSE raw[j]
        IN IF j < Len(raw) THEN RStrip(a, WS) ELSE a]

\* the split of author_text at the first affiliation cue: AFF_CUES, and
\* AFF_CUES_MERGED when AFF_CUES gave no affiliation text
CueSplit(author_text) ==
    LET cut(re, st) ==
            LET k == SearchStart(re, st.text) IN
            IF k = 0 THEN st
            ELSE [text |-> StripChars(SubSeq(st.text, 1, k - 1), {" ", ","}),
                  aff |-> Strip(SubSeq(st.text, k, Len(st.text)))]
        first == cut(AFF_CUES, [text |-> author_text, aff |-> ""])
    IN IF first.aff = "" THEN cut(AFF_CUES_MERGED, first) ELSE first

\* extracted_aff with the fragment p moved into it
AddAff(aff, p) ==
    IF aff # "" THEN StripChars(aff \o ", " \o p, {",", " "}) ELSE p

\* one iteration of the loop over the comma-separated parts, on the state
\* st = [authors, aff]
UnmarkedStep(st, part) ==
    LET p == Strip(part)
        corresponding == \E j \in 1..Len(p) : Ch(p, j) \in AsteriskSet
        q == fix_merged_text(Strip(RemoveChars(p, AsteriskSet)))
    IN IF p = "" THEN st
       ELSE IF \A j \in 1..Len(p) : Ch(p, j) \in DigitSet THEN st
       ELSE IF is_likely_affiliation(p) THEN [st EXCEPT !.aff = AddAff(@, p)]
       ELSE IF is_likely_affiliation(q) THEN [st EXCEPT !.aff = AddAff(@, q)]
       ELSE IF q # ""
            THEN [st EXCEPT !.authors =
                     Append(@, [name |-> q, markers |-> <<>>,
                                corresponding |-> corresponding])]
       ELSE st

RECURSIVE UnmarkedLoop(_, _)
UnmarkedLoop(st, parts) ==
    IF parts = <<>> THEN st
    ELSE UnmarkedLoop(UnmarkedStep(st, parts[1]), Tail(parts))

\* the comma-separated parts the loop runs over
UnmarkedParts(text) == SplitCommas(fix_merged_text(text))

\* parse_authors_without_markers(author_text): [authors, aff]
parse_authors_without_markers(author_text) ==
    LET text == Strip(author_text) IN
    IF text = "" THEN [authors |-> <<>>, aff |-> ""]
    ELSE LET c == CueSplit(text)
             r == UnmarkedLoop([authors |-> <<>>, aff |-> c.aff],
                               UnmarkedParts(c.text))
         IN [authors |-> r.authors, aff |-> fix_merged_text(r.aff)]

(***************************************************************************)
(* Affiliations                                                            *)
(***************************************************************************)
IsStopLine(t) ==
    Search(RE_ARTINFO, t) \/ Search(RE_ABS_HDR, t) \/ Search(RE_STOP_ANY, t)

\* ^\s*([a-z])\s+(.*)$
RE_KEY_SPACE == { Bol \o Star(WS) \o One(LowerSet) \o Plus(WS) \o DotStar \o Eol }

\* ^\s*([a-z])([A-Z]. *)$
RE_KEY_GLUED ==
    { Bol \o Star(WS) \o One(LowerSet) \o One(UpperSet) \o Dot \o Star({" "})
      \o Eol }

\* Put that keeps the value of a key the dict already has
Put_Keep(d, k, v) == d @@ (k :> v)

\* dict with d[k] = v set
Put(d, k, v) == (k :> v) @@ d

\* one iteration of the loop of parse_affiliations_with_markers on the state
\* st = [affiliations, last_key, stopped]; last_key is "" for None
AffStep(st, li) ==
    LET t == Strip(li.text)
        lead == LStrip(t, WS)
    IN IF st.stopped \/ t = "" THEN st
       ELSE IF IsStopLine(t) THEN [st EXCEPT !.stopped = TRUE]
       ELSE IF Match(RE_KEY_SPACE, t)
       THEN [st EXCEPT
               !.last_key = Ch(lead, 1),
               !.affiliations =
                   Put(@, Ch(lead, 1), fix_merged_text(Strip(LStrip(Tail(lead), WS))))]
       ELSE IF Match(RE_KEY_GLUED, t)
       THEN [st EXCEPT
               !.last_key = Ch(lead, 1),
               !.affiliations = Put(@, Ch(lead, 1), fix_merged_text(Strip(Tail(lead))))]
       ELSE IF st.last_key # ""
       THEN [st EXCEPT
               !.affiliations =
                   Put(@, st.last_key,
                       Strip(@[st.last_key] \o " " \o fix_merged_text(t)))]
       ELSE st

RECURSIVE AffLoop(_, _)
AffLoop(st, lines) ==
    IF lines = <<>> THEN st ELSE AffLoop(AffStep(st, lines[1]), Tail(lines))

parse_affiliations_with_markers(aff_lines) ==
    AffLoop([affiliations |-> <<>>, last_key |-> "", stopped |-> FALSE],
            aff_lines).affiliations

parse_affiliations_without_markers(aff_text) ==
    LET t == Strip(aff_text)
        u == fix_merged_text(Strip(CollapseWS(t)))
    IN IF t = "" THEN <<>>
       ELSE IF Search(RE_ARTINFO, t) \/ Search(RE_ABS_HDR, t) THEN <<>>
       ELSE IF u # "" THEN [all |-> u] ELSE <<>>

(***************************************************************************)
(* cluster_lines                                                           *)
(***************************************************************************)
\* the tolerances cluster_lines is called with: y_tol=3.0, and x_tol=3.0 by default
Y_TOL == 3
X_TOL == 3

Abs(x) == IF x < 0 THEN -x ELSE x

\* SortByField without the sort: the input order is kept
SortByField_Unsorted(seq, f) == seq

RECURSIVE SortByField(_, _)
\* sorted(seq, key=lambda x: x[f]): stable
SortByField(seq, f) ==
    IF seq = <<>> THEN <<>>
    ELSE LET init == SortByField(SubSeq(seq, 1, Len(seq) - 1), f)
             x == seq[Len(seq)]
             n == Cardinality({j \in 1..Len(init) : init[j][f] <= x[f]})
         IN SubSeq(init, 1, n) \o <<x>> \o SubSeq(init, n + 1, Len(init))

\* the loop body of cluster_lines: the word goes to the first bucket whose y
\* is within y_tol of its top, else to a new bucket
ClusterStep(bks, w, y_tol) ==
    LET near == {j \in 1..Len(bks) : Abs(bks[j].y - w.top) <= y_tol} IN
    IF near # {}
    THEN [bks EXCEPT ![Min(near)].ws = Append(@, w)]
    ELSE Append(bks, [y |-> w.top, ws |-> <<w>>])

RECURSIVE ClusterLoop(_, _, _)
ClusterLoop(bks, words, y_tol) ==
    IF words = <<>> THEN bks
    ELSE ClusterLoop(ClusterStep(bks, words[1], y_tol), Tail(words), y_tol)

RECURSIVE LineParts(_, _)
\* the parts of a line: each word, and a " " after it when the gap to the next
\* word exceeds x_tol
LineParts(ws, x_tol) ==
    IF ws = <<>> THEN <<>>
    ELSE <<ws[1].text>>
         \o (IF Len(ws) > 1 /\ ws[2].x0 - ws[1].x1 > x_tol THEN <<" ">> ELSE <<>>)
         \o LineParts(Tail(ws), x_tol)

\* BucketText without the re.sub that collapses runs of whitespace
BucketText_NoCollapse(b, x_tol) ==
    Strip(Join(LineParts(SortByField(b.ws, "x0"), x_tol), " "))

\* the text of a bucket
BucketText(b, x_tol) ==
    CollapseWS(Strip(Join(LineParts(SortByField(b.ws, "x0"), x_tol), " ")))

RECURSIVE BuildLines(_, _)
\* the lines of the (sorted) buckets: a bucket with an empty text gives none
BuildLines(bks, x_tol) ==
    IF bks = <<>> THEN <<>>
    ELSE LET b == bks[1]
             text == BucketText(b, x_tol)
         IN (IF text # ""
             THEN <<MkLine(b.y, text, Max({b.ws[j].size : j \in 1..Len(b.ws)}))>>
             ELSE <<>>)
            \o BuildLines(Tail(bks), x_tol)

cluster_lines(words, y_tol, x_tol) ==
    BuildLines(SortByField(ClusterLoop(<<>>, words, y_tol), "y"), x_tol)

\* find_y(lines, regex): <<y>> of the first line the regex is found in, <<>>
\* for None
find_y(lines, re) ==
    LET hit == {j \in 1..Len(lines) : Search(re, lines[j].text)} IN
    IF hit = {} THEN <<>> ELSE <<lines[Min(hit)].y>>

(***************************************************************************)
(* parse_front_matter_page1.  The page fractions H * 0.35, H * 0.10,       *)
(* H * 0.62 and H * 0.45 are kept exact by comparing hundredths: a name    *)
(* ending in 100 is a hundred times the vertical position it stands for.   *)
(***************************************************************************)
\* [seq[j] : j such that Keep(seq[j])], in order
RECURSIVE SelectLines(_, _)
SelectLines(seq, keep) ==
    IF seq = <<>> THEN <<>>
    ELSE (IF seq[1] \in keep THEN <<seq[1]>> ELSE <<>>) \o SelectLines(Tail(seq), keep)

Range(seq) == {seq[j] : j \in 1..Len(seq)}

\* find_header_end_y(lines, page_height), in hundredths
find_header_end_y100(lines, H) ==
    LET low == {j \in 1..Len(lines) : 100 * lines[j].y > 35 * H}
        n == IF low = {} THEN Len(lines) ELSE Min(low) - 1
        banner_y_positions ==
            {lines[j].y : j \in {k \in 1..n : is_header_banner(lines[k].text)}}
    IN IF banner_y_positions # {} THEN 100 * (Max(banner_y_positions) + 5)
       ELSE 10 * H

\* find_y(lines, RE_ARTINFO) or find_y(lines, RE_ABS_HDR), H * 0.62 for None;
\* in hundredths.  Python's "or" passes over a first operand that is None or 0.
absinfo_y100(lines, H) ==
    LET a == find_y(lines, RE_ARTINFO)
        b == find_y(lines, RE_ABS_HDR)
        r == IF a # <<>> /\ a[1] # 0 THEN a ELSE b
    IN IF r = <<>> THEN 62 * H ELSE 100 * r[1]

\* content_end_y without the bound of 45% of the page height
content_end_y100_NoCap(lines, H) == absinfo_y100(lines, H)

\* content_end_y, in hundredths
content_end_y100(lines, H) ==
    LET a == absinfo_y100(lines, H) IN IF a <= 45 * H THEN a ELSE 45 * H

\* the lines of the title window
TopLines(lines, H) ==
    SelectLines(lines,
        {li \in Range(lines) :
            /\ find_header_end_y100(lines, H) <= 100 * li.y
            /\ 100 * li.y < content_end_y100(lines, H)
            /\ ~is_header_banner(li.text)})

MaxFont(top) == Max({top[j].max_size : j \in 1..Len(top)})

\* the lines whose font size is within 1.5 of the largest of the window
TitleCandidates(top) ==
    SortByField(
        SelectLines(top,
            {li \in Range(top) :
                /\ 2 * li.max_size >= 2 * MaxFont(top) - 3
                /\ ~is_header_banner(li.text)}),
        "y")

RECURSIVE TitleRun(_, _)
\* the candidates up to the first vertical gap of more than 20; last is <<y>>
\* of the line taken last, <<>> for None
TitleRun(cands, last) ==
    IF cands = <<>> THEN <<>>
    ELSE IF is_header_banner(cands[1].text) THEN TitleRun(Tail(cands), last)
    ELSE IF last = <<>> \/ Abs(cands[1].y - last[1]) <= 20
         THEN <<cands[1]>> \o TitleRun(Tail(cands), <<cands[1].y>>)
    ELSE <<>>

TitleLines(top) == TitleRun(TitleCandidates(top), <<>>)

Texts(lines) == [j \in 1..Len(lines) |-> lines[j].text]

\* title_bottom_y, in hundredths
title_bottom_y100(lines, H, title_lines) ==
    IF title_lines # <<>> THEN 100 * title_lines[Len(title_lines)].y
    ELSE find_header_end_y100(lines, H)

\* the author/affiliation zone under the title lines
ZoneFrom(lines, H, title_lines) ==
    SelectLines(lines,
        {li \in Range(lines) :
            /\ title_bottom_y100(lines, H, title_lines) + 500 < 100 * li.y
            /\ 100 * li.y < absinfo_y100(lines, H)
            /\ ~is_header_banner(li.text)})

ZoneLines(lines, H) == ZoneFrom(lines, H, TitleLines(TopLines(lines, H)))

\* ^\s*[a-z]\s+[A-Z]  and  ^\s*[a-z][A-Z]
RE_MARKER_LINE ==
    { Bol \o Star(WS) \o One(LowerSet) \o Plus(WS) \o One(UpperSet),
      Bol \o Star(WS) \o One(LowerSet) \o One(UpperSet) }

\* ZoneHit with the affiliation cue tested before the marker pattern
ZoneHit_CueFirst(li) ==
    LET t == Strip(li.text) IN
    IF IsStopLine(t) THEN "stop"
    ELSE IF Search(AFF_CUES, t) THEN "cue"
    ELSE IF Match({ Bol \o Star(WS) \o One(LowerSet) \o Plus(WS) \o One(UpperSet),
                    Bol \o Star(WS) \o One(LowerSet) \o One(UpperSet) }, t)
    THEN "marker"
    ELSE ""

\* what the scan of the zone stops on at line li: "stop", "marker", "cue", or
\* "" when it goes on
ZoneHit(li) ==
    LET t == Strip(li.text) IN
    IF IsStopLine(t) THEN "stop"
    ELSE IF Match(RE_MARKER_LINE, t) THEN "marker"
    ELSE IF Search(AFF_CUES, t) THEN "cue"
    ELSE ""

\* the scan of the zone: [has_markers, aff_start]; aff_start is the 1-based
\* index of the line the scan stopped on, 0 for None
ZoneScan(zone) ==
    LET hits == {j \in 1..Len(zone) : ZoneHit(zone[j]) # ""} IN
    IF hits = {} THEN [has_markers |-> FALSE, aff_start |-> 0]
    ELSE [has_markers |-> ZoneHit(zone[Min(hits)]) = "marker",
          aff_start |-> Min(hits)]

\* author_lines and aff_lines
ZoneSplit(zone) ==
    LET k == ZoneScan(zone).aff_start
        cut == IF k = 0 THEN (IF Len(zone) < 2 THEN Len(zone) ELSE 2) ELSE k - 1
    IN [author_lines |-> SubSeq(zone, 1, cut),
        aff_lines |-> SubSeq(zone, cut + 1, Len(zone))]

EmptyFrontMatter == [title |-> "", authors |-> <<>>, affiliations |-> <<>>]

\* author_lines, aff_lines and has_markers of the zone
SplitOf(zone) ==
    [author_lines |-> ZoneSplit(zone).author_lines,
     aff_lines |-> ZoneSplit(zone).aff_lines,
     has_markers |-> ZoneScan(zone).has_markers]

\* the authors of author_lines
ResolveAuthors(sp) ==
    IF sp.has_markers THEN parse_authors_with_markers(sp.author_lines)
    ELSE parse_authors_without_markers(Strip(Join(Texts(sp.author_lines), " "))).authors

\* combined_aff
combined_aff(extra_aff, aff_text) ==
    IF extra_aff # "" \/ aff_text # "" THEN Strip(extra_aff \o " " \o aff_text) ELSE ""

\* the affiliations of aff_lines, and of what the authors left over
ResolveAffiliations(sp) ==
    IF sp.has_markers THEN parse_affiliations_with_markers(sp.aff_lines)
    ELSE parse_affiliations_without_markers(
            combined_aff(
                parse_authors_without_markers(
                    Strip(Join(Texts(sp.author_lines), " "))).aff,
                Strip(Join(Texts(sp.aff_lines), " "))))

\* the authors and affiliations of the zone
Resolve(zone) ==
    [authors |-> ResolveAuthors(SplitOf(zone)),
     affiliations |-> ResolveAffiliations(SplitOf(zone))]

\* parse_front_matter_page1 from the lines of the page on
FrontMatter(lines, H) ==
    LET top == TopLines(lines, H) IN
    IF top = <<>> THEN EmptyFrontMatter
    ELSE LET r == Resolve(ZoneLines(lines, H)) IN
         [title |-> fix_merged_text(Strip(Join(Texts(TitleLines(top)), " "))),
          authors |-> r.authors,
          affiliations |-> r.affiliations]

\* parse_front_matter_page1 from the words of the page on
parse_front_matter_page1(words, H) ==
    IF words = <<>> THEN EmptyFrontMatter
    ELSE FrontMatter(cluster_lines(words, Y_TOL, X_TOL), H)

(***************************************************************************)
(* extract_kw_abs_from_lines                                               *)
(***************************************************************************)
\* (?i)\bKeywords?\b\s*:?\s*   (what precedes the group (.*)$)
RE_KW_STRIP ==
    { Bnd \o LitI("keyword") \o Opt(CI("s")) \o Bnd \o Star(WS) \o Opt({":"})
      \o Star(WS) }

\* (?i)\bAbstract\b\s*:?\s*    (what precedes the group (.*)$)
RE_ABS_STRIP ==
    { Bnd \o LitI("abstract") \o Bnd \o Star(WS) \o Opt({":"}) \o Star(WS) }

\* [m.group(1).strip()] if m and m.group(1) else [], for m = the search of
\* "prefix(.*)$" in line: the match is the leftmost one, and its greedy
\* prefix ends as late as it can
HeaderParts(prefix, line) ==
    LET i == SearchStart(prefix, line) IN
    IF i = 0 THEN <<>>
    ELSE LET e == Max(UNION {Ends(p, 1, line, i) : p \in prefix})
             g == SubSeq(line, e, Len(line))
         IN IF g # "" THEN <<Strip(g)>> ELSE <<>>

\* the index of the first line the regex is found in, 0 for None
FirstIdx(lines, re) ==
    LET hit == {j \in 1..Len(lines) : Search(re, lines[j].text)} IN
    IF hit = {} THEN 0 ELSE Min(hit)

\* TakeUntil without the break: the stripped texts of all the lines
TakeUntil_All(lines, stops) == [j \in 1..Len(lines) |-> Strip(lines[j].text)]

RECURSIVE TakeUntil(_, _)
\* the stripped texts of the lines up to the first one a regex of stops is
\* found in
TakeUntil(lines, stops) ==
    IF lines = <<>> THEN <<>>
    ELSE LET t == Strip(lines[1].text) IN
         IF \E re \in stops : Search(re, t) THEN <<>>
         ELSE <<t>> \o TakeUntil(Tail(lines), stops)

\* " ".join(parts), whitespace-normalized; "" when there are no parts
SpanText(parts) == IF parts = <<>> THEN "" ELSE Strip(CollapseWS(Join(parts, " ")))

clean_lines(lines) ==
    SelectLines(lines, {li \in Range(lines) : ~is_header_banner(li.text)})

\* KwSpan without the tests "abs_idx > kw_idx" and "intro_idx > kw_idx"
KwSpan_AnyOrder(lines) ==
    LET cl == SelectLines(lines, {li \in Range(lines) : ~is_header_banner(li.text)})
        kw_idx == FirstIdx(cl, RE_KEYWORDS_HDR)
        abs_idx == FirstIdx(cl, RE_ABS_HDR)
        intro_idx == FirstIdx(cl, RE_INTRO)
    IN [from |-> kw_idx,
        to |-> IF abs_idx # 0 THEN abs_idx - 1
               ELSE IF intro_idx # 0 THEN intro_idx - 1
               ELSE Len(cl)]

\* the slice clean_lines[kw_idx:end_kw], 1-based: [from, to]
KwSpan(lines) ==
    LET cl == clean_lines(lines)
        kw_idx == FirstIdx(cl, RE_KEYWORDS_HDR)
        abs_idx == FirstIdx(cl, RE_ABS_HDR)
        intro_idx == FirstIdx(cl, RE_INTRO)
    IN [from |-> kw_idx,
        to |-> IF abs_idx # 0 /\ abs_idx > kw_idx THEN abs_idx - 1
               ELSE IF intro_idx # 0 /\ intro_idx > kw_idx THEN intro_idx - 1
               ELSE Len(cl)]

\* the slice clean_lines[abs_idx:end_abs], 1-based: [from, to]
AbsSpan(lines) ==
    LET cl == clean_lines(lines)
        abs_idx == FirstIdx(cl, RE_ABS_HDR)
        intro_idx == FirstIdx(cl, RE_INTRO)
    IN [from |-> abs_idx,
        to |-> IF intro_idx # 0 /\ intro_idx > abs_idx THEN intro_idx - 1
               ELSE Len(cl)]

\* kw_lines[0] raises IndexError: the keywords slice is empty
KwRaises(lines) == KwSpan(lines).from # 0 /\ KwSpan(lines).to < KwSpan(lines).from

\* abs_lines[0] raises IndexError: the abstract slice is empty
AbsRaises(lines) == AbsSpan(lines).from # 0 /\ AbsSpan(lines).to < AbsSpan(lines).from

\* keywords_text, when kw_lines[0] does not raise
keywords_text(lines) ==
    LET cl == clean_lines(lines)
        sp == KwSpan(lines)
    IN IF sp.from = 0 THEN ""
       ELSE LET kw_lines == SubSeq(cl, sp.from, sp.to) IN
            SpanText(HeaderParts(RE_KW_STRIP, kw_lines[1].text)
                     \o TakeUntil(Tail(kw_lines), {RE_ABS_HDR, RE_INTRO}))

\* abstract_text, when abs_lines[0] does not raise
abstract_text(lines) ==
    LET cl == clean_lines(lines)
        sp == AbsSpan(lines)
    IN IF sp.from = 0 THEN ""
       ELSE LET abs_lines == SubSeq(cl, sp.from, sp.to) IN
            SpanText(HeaderParts(RE_ABS_STRIP, abs_lines[1].text)
                     \o TakeUntil(Tail(abs_lines), {RE_INTRO}))

\* extract_kw_abs_from_lines(lines) raises
KwAbsRaises(lines) == KwRaises(lines) \/ AbsRaises(lines)

\* extract_kw_abs_from_lines(lines): [raised, keywords, abstract]; raised
\* tells that the call raises instead of returning
extract_kw_abs_from_lines(lines) ==
    IF KwAbsRaises(lines) THEN [raised |-> TRUE, keywords |-> "", abstract |-> ""]
    ELSE [raised |-> FALSE,
          keywords |-> keywords_text(lines), abstract |-> abstract_text(lines)]

(***************************************************************************)
(* The flatteners and the record of one document                           *)
(***************************************************************************)
\* s.translate(table), the table given as a function of one character
MapChars(s, f) == Concat([i \in 1..Len(s) |-> f[Ch(s, i)]], 1, Len(s))

DIGIT_TO_SUP == [c \in DigitSet |-> DigitToSup(c)]

IsDigits(m) == m # "" /\ \A j \in 1..Len(m) : Ch(m, j) \in DigitSet

RECURSIVE NumericMarkers(_)
\* "".join(m for m in markers if re.fullmatch(r"\d+", m))
NumericMarkers(markers) ==
    IF markers = <<>> THEN ""
    ELSE (IF IsDigits(markers[1]) THEN markers[1] ELSE "")
         \o NumericMarkers(Tail(markers))

\* the entry of one author, <<>> when its name is empty
AuthorEntry(a) ==
    LET name == Strip(a.name) IN
    IF name = "" THEN <<>>
    ELSE <<name \o MapChars(NumericMarkers(a.markers), DIGIT_TO_SUP)
                \o (IF a.corresponding THEN " ~" ELSE "")>>

RECURSIVE AuthorEntries(_)
AuthorEntries(authors) ==
    IF authors = <<>> THEN <<>>
    ELSE AuthorEntry(authors[1]) \o AuthorEntries(Tail(authors))

flatten_authors(authors) == Strip(Join(AuthorEntries(authors), ", "))

RECURSIVE AffItems(_, _)
AffItems(aff, keys) ==
    IF keys = <<>> THEN <<>>
    ELSE (IF Strip(aff[keys[1]]) # ""
          THEN <<keys[1] \o " " \o Strip(aff[keys[1]])>> ELSE <<>>)
         \o AffItems(aff, Tail(keys))

flatten_affiliations(aff) ==
    IF DOMAIN aff = {} THEN ""
    ELSE IF "all" \in DOMAIN aff THEN Strip(aff["all"])
    ELSE Strip(Join(AffItems(aff, Sorted(DOMAIN aff)), " "))

\* the record main builds for one document, from the words of its first page
DocRecord(fn, words, H) ==
    LET fm == parse_front_matter_page1(words, H)
        lines == IF words # <<>> THEN cluster_lines(words, Y_TOL, X_TOL) ELSE <<>>
        ka == extract_kw_abs_from_lines(lines)
    IN IF KwAbsRaises(lines) THEN "raise"
       ELSE
       [filename |-> fn,
        title |-> fm.title,
        authors |-> flatten_authors(fm.authors),
        affiliations |-> flatten_affiliations(fm.affiliations),
        keywords |-> ka.keywords,
        abstract |-> ka.abstract]

MkIdle ==
    /\ mk_lines = <<>> /\ mk_tokens = <<>> /\ mk_i = 0
    /\ mk_st = [cur |-> NewCur, authors |-> <<>>]
    /\ mk_out = <<>> /\ mk_pc = "idle"
UmIdle ==
    /\ um_text = "" /\ um_parts = <<>> /\ um_i = 0
    /\ um_st = [authors |-> <<>>, aff |-> ""]
    /\ um_out = [authors |-> <<>>, aff |-> ""] /\ um_pc = "idle"
FxIdle == fx_in = "" /\ fx_out = "" /\ fx_pc = "idle"
ClIdle == cl_words = <<>> /\ cl_buckets = <<>> /\ cl_lines = <<>> /\ cl_pc = "idle"
KaIdle ==
    /\ ka_lines = <<>> /\ ka_idx = [kw |-> 0, abs |-> 0, intro |-> 0]
    /\ ka_out = [keywords |-> "", abstract |-> ""] /\ ka_pc = "idle"
FmIdle ==
    /\ fm_lines = <<>> /\ fm_H = 0 /\ fm_top = <<>> /\ fm_cands = <<>>
    /\ fm_title = <<>> /\ fm_zone = <<>>
    /\ fm_split = [author_lines |-> <<>>, aff_lines |-> <<>>, has_markers |-> FALSE]
    /\ fm_rec = <<>> /\ fm_pc = "idle"
OcIdle ==
    /\ oc_i = 0 /\ oc_pc = "idle" /\ oc_wpc = "none" /\ oc_q = <<>>
    /\ oc_file = <<>> /\ oc_log = <<>>

AbIdle == ab_lines = <<>> /\ ab_H = 0 /\ ab_r = <<>> /\ ab_y100 = 0 /\ ab_pc = "idle"

AfIdle ==
    /\ af_lines = <<>> /\ af_i = 0
    /\ af_st = [affiliations |-> <<>>, last_key |-> "", stopped |-> FALSE]
    /\ af_out = <<>> /\ af_pc = "idle"

TwIdle ==
    /\ tw_words = <<>> /\ tw_H = 0 /\ tw_seeds = <<>> /\ tw_out = <<>>
    /\ tw_pc = "idle"

FlIdle ==
    /\ fl_authors = <<>> /\ fl_i = 0 /\ fl_parts = <<>> /\ fl_out = ""
    /\ fl_pc = "idle"

\* the texts made of at most n pieces of P
RECURSIVE PieceTexts(_, _)
PieceTexts(P, n) ==
    IF n = 0 THEN {""}
    ELSE LET prev == PieceTexts(P, n - 1) IN prev \cup {t \o q : t \in prev, q \in P}

(***************************************************************************)
(* parse_authors_with_markers as a state machine                           *)
(***************************************************************************)
MaxPieces == 3

MkPieces == {"Jane", "Smith", "Doe", " ", ",", "1", "a", "~", "!"}

\* the author line of the marker-path example: Jane Doe, 1 John Smith, 2 *
MkExample == "Jane Doe, 1 John Smith, 2 ~"

MkInputs ==
    {<<MkLine(0, t, 10)>> : t \in PieceTexts(MkPieces, MaxPieces) \cup {MkExample}}
    \cup {<<MkLine(0, t, 10), MkLine(8, u, 10)>> : t, u \in {"Jane 1", ", Doe", "a ~"}}

MkInit ==
    /\ mk_lines \in MkInputs
    /\ mk_tokens = extract_tokens_from_lines(mk_lines)
    /\ mk_i = 0
    /\ mk_st = [cur |-> NewCur, authors |-> <<>>]
    /\ mk_out = <<>>
    /\ mk_pc = "loop"

MkOthers ==
    <<umVars, fxVars, clVars, kaVars, fmVars, ocVars, abVars, afVars, twVars,
      flVars>>

MkTok == mk_tokens[mk_i + 1]

MkIsMarker(tok) ==
    \/ Len(tok) = 1 /\ tok \in LowerSet \cup SupSet
    \/ IsDigits(tok)

MkAdvance ==
    /\ mk_st' = MarkerStep(mk_st, MkTok)
    /\ mk_i' = mk_i + 1
    /\ UNCHANGED <<mk_lines, mk_tokens, mk_out, mk_pc>>
    /\ UNCHANGED MkOthers

\* tok == ","
MkComma == mk_pc = "loop" /\ mk_i < Len(mk_tokens) /\ MkTok = "," /\ MkAdvance

\* tok is an asterisk
MkAsterisk ==
    mk_pc = "loop" /\ mk_i < Len(mk_tokens) /\ MkTok \in AsteriskSet /\ MkAdvance

\* tok is a lowercase letter, a digit sequence or a superscript digit
MkMarker ==
    mk_pc = "loop" /\ mk_i < Len(mk_tokens) /\ MkIsMarker(MkTok) /\ MkAdvance

\* any other token
MkNamePart ==
    /\ mk_pc = "loop" /\ mk_i < Len(mk_tokens)
    /\ MkTok # "," /\ MkTok \notin AsteriskSet /\ ~MkIsMarker(MkTok)
    /\ MkAdvance

\* the end of the loop
MkFinish ==
    /\ mk_pc = "loop" /\ mk_i = Len(mk_tokens)
    /\ mk_out' = MarkerFinish(mk_st)
    /\ mk_pc' = "done"
    /\ UNCHANGED <<mk_lines, mk_tokens, mk_i, mk_st>>
    /\ UNCHANGED MkOthers

MkNext == MkComma \/ MkAsterisk \/ MkMarker \/ MkNamePart \/ MkFinish

InitMarkers ==
    /\ MkInit /\ UmIdle /\ FxIdle /\ ClIdle /\ KaIdle /\ FmIdle /\ OcIdle /\ AbIdle
    /\ AfIdle /\ TwIdle /\ FlIdle

SpecMarkers == InitMarkers /\ [][MkNext]_vars

(***************************************************************************)
(* parse_authors_without_markers as a state machine                        *)
(***************************************************************************)
MaxSegs == 3

UmSegs ==
    {"Jane Doe", "John Smith", "Department of Computer Science", "MIT", "USA",
     "Ann Lee~", "12", ""}

\* the author text of the unmarked-path example
UmExample == "Jane Doe, John Smith, Department of Computer Science, MIT, USA"

RECURSIVE SegTexts(_, _)
\* the texts made of 1..n segments of P joined by ", "
SegTexts(P, n) ==
    IF n = 1 THEN P
    ELSE LET prev == SegTexts(P, n - 1) IN prev \cup {t \o ", " \o q : t \in prev, q \in P}

UmInit ==
    /\ um_text \in SegTexts(UmSegs, MaxSegs) \cup {UmExample}
    /\ um_parts = <<>> /\ um_i = 0
    /\ um_st = [authors |-> <<>>, aff |-> ""]
    /\ um_out = [authors |-> <<>>, aff |-> ""]
    /\ um_pc = "start"

UmOthers ==
    <<mkVars, fxVars, clVars, kaVars, fmVars, ocVars, abVars, afVars, twVars,
      flVars>>

\* an empty author_text: return [], ""
UmEmpty ==
    /\ um_pc = "start" /\ Strip(um_text) = ""
    /\ um_pc' = "done"
    /\ UNCHANGED <<um_text, um_parts, um_i, um_st, um_out>>
    /\ UNCHANGED UmOthers

\* the split at the first affiliation cue, and the split at the commas
UmSplit ==
    /\ um_pc = "start" /\ Strip(um_text) # ""
    /\ LET c == CueSplit(Strip(um_text)) IN
         /\ um_st' = [authors |-> <<>>, aff |-> c.aff]
         /\ um_parts' = UnmarkedParts(c.text)
    /\ um_pc' = "loop"
    /\ UNCHANGED <<um_text, um_i, um_out>>
    /\ UNCHANGED UmOthers

\* one part
UmPart ==
    /\ um_pc = "loop" /\ um_i < Len(um_parts)
    /\ um_st' = UnmarkedStep(um_st, um_parts[um_i + 1])
    /\ um_i' = um_i + 1
    /\ UNCHANGED <<um_text, um_parts, um_out, um_pc>>
    /\ UNCHANGED UmOthers

\* the end of the loop
UmFinish ==
    /\ um_pc = "loop" /\ um_i = Len(um_parts)
    /\ um_out' = [authors |-> um_st.authors, aff |-> fix_merged_text(um_st.aff)]
    /\ um_pc' = "done"
    /\ UNCHANGED <<um_text, um_parts, um_i, um_st>>
    /\ UNCHANGED UmOthers

UmNext == UmEmpty \/ UmSplit \/ UmPart \/ UmFinish

InitUnmarked ==
    /\ UmInit /\ MkIdle /\ FxIdle /\ ClIdle /\ KaIdle /\ FmIdle /\ OcIdle /\ AbIdle
    /\ AfIdle /\ TwIdle /\ FlIdle

SpecUnmarked == InitUnmarked /\ [][UmNext]_vars

(***************************************************************************)
(* fix_merged_text as a state machine                                      *)
(***************************************************************************)
MaxFixPieces == 3

FxPieces == {"Jane", "Doe", "Johnson", "University", "of", "the", " ", " and "}

FxInit ==
    /\ fx_in \in PieceTexts(FxPieces, MaxFixPieces)
    /\ fx_out = ""
    /\ fx_pc = "start"

FxOthers ==
    <<mkVars, umVars, clVars, kaVars, fmVars, ocVars, abVars, afVars, twVars,
      flVars>>

FxReturn ==
    /\ fx_out' = fix_merged_text(fx_in)
    /\ fx_pc' = "done"
    /\ UNCHANGED fx_in
    /\ UNCHANGED FxOthers

FxWordCount == Len(SplitWS(Strip(fx_in)))
FxLen == Len(Strip(fx_in))

\* not text
FxEmpty == fx_pc = "start" /\ fx_in = "" /\ FxReturn

\* len(words) >= 3
FxManyWords == fx_pc = "start" /\ fx_in # "" /\ FxWordCount >= 3 /\ FxReturn

\* len(text) > 15 and len(words) <= 2
FxLong == fx_pc = "start" /\ fx_in # "" /\ FxWordCount < 3 /\ FxLen > 15 /\ FxReturn

\* len(words) == 1 and len(text) > 10
FxOneWord ==
    /\ fx_pc = "start" /\ fx_in # "" /\ FxWordCount = 1 /\ FxLen <= 15 /\ FxLen > 10
    /\ FxReturn

\* the text is returned as it is, stripped
FxShort ==
    /\ fx_pc = "start" /\ fx_in # "" /\ FxWordCount < 3 /\ FxLen <= 15
    /\ ~(FxWordCount = 1 /\ FxLen > 10)
    /\ FxReturn

FxNext == FxEmpty \/ FxManyWords \/ FxLong \/ FxOneWord \/ FxShort

InitFix ==
    /\ FxInit /\ MkIdle /\ UmIdle /\ ClIdle /\ KaIdle /\ FmIdle /\ OcIdle /\ AbIdle
    /\ AfIdle /\ TwIdle /\ FlIdle

SpecFix == InitFix /\ [][FxNext]_vars

(***************************************************************************)
(* Properties of the author parsers and of fix_merged_text                 *)
(***************************************************************************)
Author(name, markers, corresponding) ==
    [name |-> name, markers |-> markers, corresponding |-> corresponding]

\* C1: for the author line "Jane Doe, 1 John Smith, 2 *", whose tokens are
\* Jane, Doe, ",", 1, John, Smith, ",", 2, "*", parse_authors_with_markers
\* returns exactly Jane Doe with markers [1], not corresponding, and then
\* John Smith with markers [2], corresponding.
C1_MarkerExample ==
    (/\ mk_pc = "done"
     /\ mk_lines = <<MkLine(0, MkExample, 10)>>
     /\ mk_tokens = <<"Jane", "Doe", ",", "1", "John", "Smith", ",", "2", "~">>)
    => mk_out = <<Author("Jane Doe", <<"1">>, FALSE),
                  Author("John Smith", <<"2">>, TRUE)>>

\* C2: for the author text "Jane Doe, John Smith, Department of Computer
\* Science, MIT, USA", parse_authors_without_markers returns the authors
\* Jane Doe and John Smith, in that order and without markers, and the
\* affiliation text "Department of Computer Science, MIT, USA".
C2_UnmarkedExample ==
    (um_pc = "done" /\ um_text = UmExample)
    => /\ um_out.authors = <<Author("Jane Doe", <<>>, FALSE),
                             Author("John Smith", <<>>, FALSE)>>
       /\ um_out.aff = "Department of Computer Science, MIT, USA"

\* a lowercase letter directly followed by an uppercase letter
HasCamel(s) ==
    \E j \in 1..(Len(s) - 1) : Ch(s, j) \in LowerSet /\ Ch(s, j + 1) \in UpperSet

MaxWords == 3

ClTops == {0, 2, 3, 6}

\* the horizontal extents, texts and sizes of the words
ClGlyphs ==
    { [x0 |-> 0, x1 |-> 4, text |-> "a", size |-> 10],
      [x0 |-> 5, x1 |-> 9, text |-> "b", size |-> 12],
      [x0 |-> 20, x1 |-> 24, text |-> "c", size |-> 10] }

ClWordSet ==
    { [top |-> t, x0 |-> g.x0, x1 |-> g.x1, text |-> g.text, size |-> g.size] :
        t \in ClTops, g \in ClGlyphs }

ClInit == cl_words = <<>> /\ cl_buckets = <<>> /\ cl_lines = <<>> /\ cl_pc = "loop"

ClOthers ==
    <<mkVars, umVars, fxVars, kaVars, fmVars, ocVars, abVars, afVars, twVars,
      flVars>>

ClNear(w) == \E j \in 1..Len(cl_buckets) : Abs(cl_buckets[j].y - w.top) <= Y_TOL

ClTake(w) ==
    /\ cl_buckets' = ClusterStep(cl_buckets, w, Y_TOL)
    /\ cl_words' = Append(cl_words, w)
    /\ UNCHANGED <<cl_lines, cl_pc>>
    /\ UNCHANGED ClOthers

\* the next word joins the first bucket within y_tol
ClAssign ==
    /\ cl_pc = "loop" /\ Len(cl_words) < MaxWords
    /\ \E w \in ClWordSet : ClNear(w) /\ ClTake(w)

\* the next word opens a bucket
ClOpen ==
    /\ cl_pc = "loop" /\ Len(cl_words) < MaxWords
    /\ \E w \in ClWordSet : ~ClNear(w) /\ ClTake(w)

\* the words are exhausted: the buckets are sorted and their lines built
ClBuild ==
    /\ cl_pc = "loop"
    /\ cl_lines' = BuildLines(SortByField(cl_buckets, "y"), X_TOL)
    /\ cl_pc' = "done"
    /\ UNCHANGED <<cl_words, cl_buckets>>
    /\ UNCHANGED ClOthers

ClNext == ClAssign \/ ClOpen \/ ClBuild

InitCluster ==
    /\ ClInit /\ MkIdle /\ UmIdle /\ FxIdle /\ KaIdle /\ FmIdle /\ OcIdle /\ AbIdle
    /\ AfIdle /\ TwIdle /\ FlIdle

SpecCluster == InitCluster /\ [][ClNext]_vars

\* C3: any two words whose tops differ by more than y_tol are in different
\* Lines, that is in different buckets, whatever the order of the words.
C3_FarWordsApart ==
    \A j \in 1..Len(cl_buckets) :
        \A a, b \in Range(cl_buckets[j].ws) : Abs(a.top - b.top) <= Y_TOL

\* the permutations of 1..n
Perms(n) == {f \in [1..n -> 1..n] : \A a, b \in 1..n : f[a] = f[b] => a = b}

\* C4: words that all share one vertical position give exactly one Line, and
\* their texts stand in it in ascending order of x0, whatever the input order.
C4_OneLineLeftToRight ==
    (/\ cl_pc = "done"
     /\ cl_words # <<>>
     /\ \A j \in 1..Len(cl_words) : cl_words[j].top = cl_words[1].top)
    => /\ Len(cl_lines) = 1
       /\ \E f \in Perms(Len(cl_words)) :
            /\ \A j \in 1..(Len(cl_words) - 1) :
                  cl_words[f[j]].x0 <= cl_words[f[j + 1]].x0
            /\ SplitWS(cl_lines[1].text)
                 = [j \in 1..Len(cl_words) |-> cl_words[f[j]].text]

\* C4 witness: three co-linear words supplied right to left
C4_Witness ==
    /\ cl_pc = "done"
    /\ Len(cl_words) = 3
    /\ \A j \in 1..3 : cl_words[j].top = 2
    /\ cl_words[1].x0 > cl_words[2].x0 /\ cl_words[2].x0 > cl_words[3].x0
    /\ Len(cl_lines) = 1
    /\ cl_lines[1].text = "a b c"

(***************************************************************************)
(* extract_kw_abs_from_lines as a state machine                            *)
(***************************************************************************)
MaxKaLines == 3

KaTexts ==
    {"Keywords: machine learning, NLP", "Keywords: abstract interpretation",
     "Key words: ml", "Abstract", "A B S T R A C T", "We propose...",
     "1. Introduction"}

\* the Lines of a page with the given texts, top to bottom
LinesOf(texts) == [j \in 1..Len(texts) |-> MkLine(10 * j, texts[j], 10)]

KaInputs ==
    {LinesOf(ts) : ts \in UNION {[1..n -> KaTexts] : n \in 0..MaxKaLines}}

KaInit ==
    /\ ka_lines \in KaInputs
    /\ ka_idx = [kw |-> 0, abs |-> 0, intro |-> 0]
    /\ ka_out = [keywords |-> "", abstract |-> ""]
    /\ ka_pc = "scan"

KaOthers ==
    <<mkVars, umVars, fxVars, clVars, fmVars, ocVars, abVars, afVars, twVars,
      flVars>>

\* the loop that finds kw_idx, abs_idx and intro_idx
KaScan ==
    /\ ka_pc = "scan"
    /\ ka_idx' = [kw |-> FirstIdx(clean_lines(ka_lines), RE_KEYWORDS_HDR),
                  abs |-> FirstIdx(clean_lines(ka_lines), RE_ABS_HDR),
                  intro |-> FirstIdx(clean_lines(ka_lines), RE_INTRO)]
    /\ ka_pc' = "keywords"
    /\ UNCHANGED <<ka_lines, ka_out>>
    /\ UNCHANGED KaOthers

\* the KEYWORDS block
KaKeywords ==
    /\ ka_pc = "keywords"
    /\ IF KwRaises(ka_lines)
       THEN ka_pc' = "raised" /\ UNCHANGED ka_out
       ELSE ka_pc' = "abstract"
            /\ ka_out' = [ka_out EXCEPT !.keywords = keywords_text(ka_lines)]
    /\ UNCHANGED <<ka_lines, ka_idx>>
    /\ UNCHANGED KaOthers

\* the ABSTRACT block and the return
KaAbstract ==
    /\ ka_pc = "abstract"
    /\ IF AbsRaises(ka_lines)
       THEN ka_pc' = "raised" /\ UNCHANGED ka_out
       ELSE ka_pc' = "done"
            /\ ka_out' = [ka_out EXCEPT !.abstract = abstract_text(ka_lines)]
    /\ UNCHANGED <<ka_lines, ka_idx>>
    /\ UNCHANGED KaOthers

KaNext == KaScan \/ KaKeywords \/ KaAbstract

InitKwAbs ==
    /\ KaInit /\ MkIdle /\ UmIdle /\ FxIdle /\ ClIdle /\ FmIdle /\ OcIdle /\ AbIdle
    /\ AfIdle /\ TwIdle /\ FlIdle

SpecKwAbs == InitKwAbs /\ [][KaNext]_vars

\* no anchor and no banner in a text
NoAnchor(t) ==
    /\ ~Search(RE_KEYWORDS_HDR, t) /\ ~Search(RE_ABS_HDR, t) /\ ~Search(RE_INTRO, t)
    /\ ~is_header_banner(t)

KaText(j) == ka_lines[j].text

\* C5: for the lines "Keywords: K", then a line that is only the abstract
\* header, then body lines without an anchor, the keywords are K and the
\* abstract is the body lines joined by spaces, without the header word.
C5_KeywordAbstractBoundary ==
    (/\ ka_pc = "done"
     /\ Len(ka_lines) >= 2
     /\ StartsWith(KaText(1), "Keywords: ")
     /\ FullMatch(RE_ABS_HDR, KaText(2))
     /\ \A j \in 3..Len(ka_lines) : NoAnchor(KaText(j)))
    => /\ ka_out.keywords = Strip(CollapseWS(SubSeq(KaText(1), 11, Len(KaText(1)))))
       /\ ka_out.abstract
            = Join([j \in 1..(Len(ka_lines) - 2) |-> KaText(j + 2)], " ")

\* C6: extract_kw_abs_from_lines never raises, on the empty sequence either;
\* keywords is "" when no line matches the keywords anchor, and abstract is
\* "" when no line matches the abstract anchor.
C6_MissingAnchors ==
    /\ ka_pc # "raised"
    /\ ka_pc = "done" =>
         /\ (\A j \in 1..Len(ka_lines) : ~Search(RE_KEYWORDS_HDR, KaText(j)))
               => ka_out.keywords = ""
         /\ (\A j \in 1..Len(ka_lines) : ~Search(RE_ABS_HDR, KaText(j)))
               => ka_out.abstract = ""

\* C6 witness: an abstract header after the keywords header, so the keywords
\* slice ends at it; and a page with an abstract but no keywords anchor
C6_Witness ==
    /\ ka_pc = "done"
    /\ Len(ka_lines) = 3
    /\ \A j \in 1..Len(ka_lines) : ~Search(RE_KEYWORDS_HDR, KaText(j))
    /\ ka_idx.abs = 2
    /\ ka_out.keywords = ""
    /\ ka_out.abstract = "We propose..."

\* the text that follows the match of an anchor in a line, without the colon
\* and the whitespace around it
AnchorTail(re, line) ==
    LET i == SearchStart(re, line)
        e == Max(UNION {Ends(p, 1, line, i) : p \in re})
        rest == LStrip(SubSeq(line, e, Len(line)), WS)
    IN Strip(CollapseWS(IF StartsWith(rest, ":") THEN Tail(rest) ELSE rest))

\* C14: the text that follows the anchor on the line the keywords anchor
\* recognises as the keywords header ("Keywords" and "Key words" alike) is
\* the first fragment of the keywords, and the text that follows the anchor
\* on the line the abstract anchor recognises as the abstract header is the
\* first fragment of the abstract.
C14_HeaderStripping ==
    ka_pc = "done" =>
        /\ ka_idx.kw # 0 =>
              StartsWith(ka_out.keywords,
                         AnchorTail(RE_KEYWORDS_HDR, clean_lines(ka_lines)[ka_idx.kw].text))
        /\ ka_idx.abs # 0 =>
              StartsWith(ka_out.abstract,
                         AnchorTail(RE_ABS_HDR, clean_lines(ka_lines)[ka_idx.abs].text))

\* the index of the first line after line k that matches the abstract or the
\* introduction anchor, and the number of lines plus one when there is none
NextAnchor(cl, k) ==
    Min({j \in (k + 1)..Len(cl) :
            Search(RE_ABS_HDR, cl[j].text) \/ Search(RE_INTRO, cl[j].text)}
        \cup {Len(cl) + 1})

MaxFmLines == 3

\* the y of the rows a line can sit on, on a page of height 100
FmRows == {10, 30, 50, 70}

\* the lines a row can hold: [text, max_size]
FmKinds ==
    { [text |-> "Deep Nets", max_size |-> 16],
      [text |-> "for Graphs", max_size |-> 15],
      [text |-> "Ann Lee", max_size |-> 10],
      [text |-> "a University of Oz", max_size |-> 10],
      [text |-> "Keywords: ml", max_size |-> 10],
      [text |-> "Abstract", max_size |-> 10],
      [text |-> "ScienceDirect", max_size |-> 10] }

RECURSIVE SetToSeq(_)
\* the numbers of S in increasing order
SetToSeq(S) == IF S = {} THEN <<>> ELSE <<Min(S)>> \o SetToSeq(S \ {Min(S)})

\* the Lines of a page, top to bottom as cluster_lines returns them
FmInputs ==
    UNION {
      { [j \in 1..Len(SetToSeq(R)) |->
            MkLine(SetToSeq(R)[j], k[SetToSeq(R)[j]].text, k[SetToSeq(R)[j]].max_size)]
        : k \in [R -> FmKinds] }
      : R \in {Q \in SUBSET FmRows : Cardinality(Q) <= MaxFmLines} }

FmInit ==
    /\ fm_lines \in FmInputs
    /\ fm_H = 100
    /\ fm_top = <<>> /\ fm_cands = <<>> /\ fm_title = <<>> /\ fm_zone = <<>>
    /\ fm_split = [author_lines |-> <<>>, aff_lines |-> <<>>, has_markers |-> FALSE]
    /\ fm_rec = <<>>
    /\ fm_pc = "window"

FmOthers ==
    <<mkVars, umVars, fxVars, clVars, kaVars, ocVars, abVars, afVars, twVars,
      flVars>>

\* the title window is empty: the empty front matter is returned
FmWindowEmpty ==
    /\ fm_pc = "window"
    /\ TopLines(fm_lines, fm_H) = <<>>
    /\ fm_rec' = EmptyFrontMatter
    /\ fm_pc' = "kwabs"
    /\ UNCHANGED <<fm_lines, fm_H, fm_top, fm_cands, fm_title, fm_zone, fm_split>>
    /\ UNCHANGED FmOthers

\* header_end_y, absinfo_y, content_end_y and top
FmWindow ==
    /\ fm_pc = "window"
    /\ TopLines(fm_lines, fm_H) # <<>>
    /\ fm_top' = TopLines(fm_lines, fm_H)
    /\ fm_pc' = "title"
    /\ UNCHANGED <<fm_lines, fm_H, fm_cands, fm_title, fm_zone, fm_split, fm_rec>>
    /\ UNCHANGED FmOthers

\* max_font, title_candidates and title_lines
FmTitle ==
    /\ fm_pc = "title"
    /\ fm_cands' = TitleCandidates(fm_top)
    /\ fm_title' = TitleRun(TitleCandidates(fm_top), <<>>)
    /\ fm_pc' = "zone"
    /\ UNCHANGED <<fm_lines, fm_H, fm_top, fm_zone, fm_split, fm_rec>>
    /\ UNCHANGED FmOthers

\* zone, the scan of it, author_lines and aff_lines
FmZone ==
    /\ fm_pc = "zone"
    /\ fm_zone' = ZoneFrom(fm_lines, fm_H, fm_title)
    /\ fm_split' = SplitOf(fm_zone')
    /\ fm_pc' = "resolve"
    /\ UNCHANGED <<fm_lines, fm_H, fm_top, fm_cands, fm_title, fm_rec>>
    /\ UNCHANGED FmOthers

\* the authors and affiliations, and the return
FmResolve ==
    /\ fm_pc = "resolve"
    /\ fm_rec' = [title |-> fix_merged_text(Strip(Join(Texts(fm_title), " "))),
                  authors |-> ResolveAuthors(fm_split),
                  affiliations |-> ResolveAffiliations(fm_split)]
    /\ fm_pc' = "kwabs"
    /\ UNCHANGED <<fm_lines, fm_H, fm_top, fm_cands, fm_title, fm_zone, fm_split>>
    /\ UNCHANGED FmOthers

\* main: extract_kw_abs_from_lines on the lines of the page, and the record
FmKwAbs ==
    /\ fm_pc = "kwabs"
    /\ \E ka \in {extract_kw_abs_from_lines(fm_lines)} :
         IF ka.raised
         THEN fm_pc' = "raised" /\ UNCHANGED fm_rec
         ELSE /\ fm_pc' = "done"
              /\ fm_rec' = [title |-> fm_rec.title,
                            authors |-> flatten_authors(fm_rec.authors),
                            affiliations |-> flatten_affiliations(fm_rec.affiliations),
                            keywords |-> ka.keywords,
                            abstract |-> ka.abstract]
    /\ UNCHANGED <<fm_lines, fm_H, fm_top, fm_cands, fm_title, fm_zone, fm_split>>
    /\ UNCHANGED FmOthers

FmNext == FmWindowEmpty \/ FmWindow \/ FmTitle \/ FmZone \/ FmResolve \/ FmKwAbs

InitFront ==
    /\ FmInit /\ MkIdle /\ UmIdle /\ FxIdle /\ ClIdle /\ KaIdle /\ OcIdle /\ AbIdle
    /\ AfIdle /\ TwIdle /\ FlIdle

SpecFront == InitFront /\ [][FmNext]_vars

Ys(lines) == {lines[j].y : j \in 1..Len(lines)}

\* the y of the lines the keywords are made of
KwYs(lines) ==
    LET cl == clean_lines(lines)
        sp == KwSpan(lines)
    IN IF sp.from = 0 THEN {}
       ELSE LET kw_lines == SubSeq(cl, sp.from, sp.to)
                n == Len(TakeUntil(Tail(kw_lines), {RE_ABS_HDR, RE_INTRO}))
            IN (IF HeaderParts(RE_KW_STRIP, kw_lines[1].text) # <<>>
                THEN {kw_lines[1].y} ELSE {})
               \cup {kw_lines[j].y : j \in 2..(n + 1)}

\* the y of the lines the abstract is made of
AbsYs(lines) ==
    LET cl == clean_lines(lines)
        sp == AbsSpan(lines)
    IN IF sp.from = 0 THEN {}
       ELSE LET abs_lines == SubSeq(cl, sp.from, sp.to)
                n == Len(TakeUntil(Tail(abs_lines), {RE_INTRO}))
            IN (IF HeaderParts(RE_ABS_STRIP, abs_lines[1].text) # <<>>
                THEN {abs_lines[1].y} ELSE {})
               \cup {abs_lines[j].y : j \in 2..(n + 1)}

\* the zones of the page: the y of the lines of each
Zones ==
    << Ys(fm_title), Ys(fm_split.author_lines), Ys(fm_split.aff_lines),
       KwYs(fm_lines), AbsYs(fm_lines) >>

\* C9: no Line contributes text to more than one of the title block, the
\* author block, the affiliation lines, the keywords span and the abstract
\* span of a page.
C9_ZonesDisjoint ==
    fm_pc = "done" =>
        \A a, b \in 1..5 : a # b => Zones[a] \cap Zones[b] = {}

\* the lines of the page in a window of y, banners apart
InWindow(from100, incl, to100) ==
    {li \in Range(fm_lines) :
        /\ ~is_header_banner(li.text)
        /\ IF incl THEN from100 <= 100 * li.y ELSE from100 < 100 * li.y
        /\ 100 * li.y < to100}

\* the lines of W whose font size is within 1.5 of the largest of W
NearLargest(W) ==
    {li \in W : \A o \in W : 2 * li.max_size >= 2 * o.max_size - 3}

FmPastTitle == fm_pc \in {"zone", "resolve"} \/ (fm_pc \in {"kwabs", "done"} /\ fm_top # <<>>)

\* C10, as claimed: the window of the title is the non-banner lines whose y is
\* strictly between the header cutoff and the metadata bound, and the title
\* candidates are its lines within 1.5pt of its largest font.
C10_WindowToMetadataBound ==
    LET W == InWindow(find_header_end_y100(fm_lines, fm_H), FALSE,
                      absinfo_y100(fm_lines, fm_H))
    IN /\ fm_pc \in {"kwabs", "done"} /\ fm_top = <<>> => W = {}
       /\ FmPastTitle => Range(fm_top) = W /\ Range(fm_cands) = NearLargest(W)

\* C10, amended: the window of the title is the non-banner lines whose y is
\* at least the header cutoff and less than both the metadata bound and 45%
\* of the page height; the title candidates are its lines within 1.5pt of
\* its largest font.
C10_WindowCapped ==
    LET W == InWindow(find_header_end_y100(fm_lines, fm_H), TRUE,
                      Min({absinfo_y100(fm_lines, fm_H), 45 * fm_H}))
    IN /\ fm_pc \in {"kwabs", "done"} /\ fm_top = <<>> => W = {}
       /\ FmPastTitle => Range(fm_top) = W /\ Range(fm_cands) = NearLargest(W)

\* C10 witness: a line on the header cutoff is a title candidate, a smaller
\* line of the window is not, and a line between 45% of the page height and
\* the metadata bound is outside the window
C10_Witness ==
    /\ fm_pc = "done"
    /\ \E li \in Range(fm_cands) : 100 * li.y = find_header_end_y100(fm_lines, fm_H)
    /\ \E li \in Range(fm_top) : li \notin Range(fm_cands)
    /\ \E li \in Range(fm_lines) :
          /\ ~is_header_banner(li.text)
          /\ 45 * fm_H <= 100 * li.y
          /\ 100 * li.y < absinfo_y100(fm_lines, fm_H)
          /\ li \notin Range(fm_top)

(***************************************************************************)
(* parse_jocs_docling.py: the loop of main and the worker process it       *)
(* starts for each document                                                *)
(***************************************************************************)
NDocs == 2

Docs == 1..NDocs

OcInit ==
    /\ oc_i = 1
    /\ oc_pc = "start"
    /\ oc_wpc = "none"
    /\ oc_q = <<>>
    /\ oc_file = [d \in Docs |-> "absent"]
    /\ oc_log = [d \in Docs |-> "none"]

OcOthers ==
    <<mkVars, umVars, fxVars, clVars, kaVars, fmVars, abVars, afVars, twVars,
      flVars>>

\* p.is_alive()
WorkerAlive == oc_wpc \notin {"none", "exited", "crashed", "killed"}

\* "continue", or the end of the loop body: the next document
OcAdvance ==
    /\ oc_i' = oc_i + 1
    /\ oc_pc' = IF oc_i + 1 > NDocs THEN "done" ELSE "start"

\* main: q = Queue(); p = Process(...); p.start(); then p.join(timeout=...)
PStart ==
    /\ oc_pc = "start"
    /\ oc_q' = <<>>
    /\ oc_wpc' = "convert"
    /\ oc_pc' = "join"
    /\ UNCHANGED <<oc_i, oc_file, oc_log>>
    /\ UNCHANGED OcOthers

\* worker: the conversion and the parsing of the text succeed
WConvert ==
    /\ oc_wpc = "convert"
    /\ oc_wpc' = "open"
    /\ UNCHANGED <<oc_i, oc_pc, oc_q, oc_file, oc_log>>
    /\ UNCHANGED OcOthers

\* worker: a Python exception in the try block
WRaise ==
    /\ oc_wpc \in {"convert", "open"}
    /\ oc_wpc' = "except"
    /\ UNCHANGED <<oc_i, oc_pc, oc_q, oc_file, oc_log>>
    /\ UNCHANGED OcOthers

\* worker: a native crash of the converter
WCrash ==
    /\ oc_wpc = "convert"
    /\ oc_wpc' = "crashed"
    /\ UNCHANGED <<oc_i, oc_pc, oc_q, oc_file, oc_log>>
    /\ UNCHANGED OcOthers

\* worker: open(out_path, "w") creates or truncates the file
WOpen ==
    /\ oc_wpc = "open"
    /\ oc_file' = [oc_file EXCEPT ![oc_i] = "empty"]
    /\ oc_wpc' = "dump"
    /\ UNCHANGED <<oc_i, oc_pc, oc_q, oc_log>>
    /\ UNCHANGED OcOthers

\* worker: json.dump writes the record in pieces; a piece may or may not
\* have left the buffer of the file object
WDump ==
    /\ oc_wpc = "dump"
    /\ \E flushed \in BOOLEAN :
         oc_file' = [oc_file EXCEPT ![oc_i] = IF flushed THEN "partial" ELSE "empty"]
    /\ oc_wpc' = "close"
    /\ UNCHANGED <<oc_i, oc_pc, oc_q, oc_log>>
    /\ UNCHANGED OcOthers

\* worker: the end of the with block closes the file
WClose ==
    /\ oc_wpc = "close"
    /\ oc_file' = [oc_file EXCEPT ![oc_i] = "complete"]
    /\ oc_wpc' = "put"
    /\ UNCHANGED <<oc_i, oc_pc, oc_q, oc_log>>
    /\ UNCHANGED OcOthers

\* worker: q.put({"ok": True}), and the process ends
WPut ==
    /\ oc_wpc = "put"
    /\ oc_q' = Append(oc_q, "ok")
    /\ oc_wpc' = "exited"
    /\ UNCHANGED <<oc_i, oc_pc, oc_file, oc_log>>
    /\ UNCHANGED OcOthers

\* worker: q.put({"ok": False, ...}) of the except clause, and the process ends
WExcept ==
    /\ oc_wpc = "except"
    /\ oc_q' = Append(oc_q, "err")
    /\ oc_wpc' = "exited"
    /\ UNCHANGED <<oc_i, oc_pc, oc_file, oc_log>>
    /\ UNCHANGED OcOthers

\* main: p.join(timeout) returns because the worker has ended
PJoined ==
    /\ oc_pc = "join"
    /\ ~WorkerAlive
    /\ oc_pc' = "alive"
    /\ UNCHANGED <<oc_i, oc_wpc, oc_q, oc_file, oc_log>>
    /\ UNCHANGED OcOthers

\* main: p.join(timeout) returns because MAX_SECONDS_PER_PDF have passed
PTimeout ==
    /\ oc_pc = "join"
    /\ WorkerAlive
    /\ oc_pc' = "alive"
    /\ UNCHANGED <<oc_i, oc_wpc, oc_q, oc_file, oc_log>>
    /\ UNCHANGED OcOthers

\* main: p.is_alive() is true
PAlive ==
    /\ oc_pc = "alive"
    /\ WorkerAlive
    /\ oc_pc' = "terminate"
    /\ UNCHANGED <<oc_i, oc_wpc, oc_q, oc_file, oc_log>>
    /\ UNCHANGED OcOthers

\* main: p.terminate(), p.join(timeout=5), log_error(..., "TIMEOUT>..."), continue
PTerminate ==
    /\ oc_pc = "terminate"
    /\ oc_wpc' = IF WorkerAlive THEN "killed" ELSE oc_wpc
    /\ oc_log' = [oc_log EXCEPT ![oc_i] = "TIMEOUT"]
    /\ OcAdvance
    /\ UNCHANGED <<oc_q, oc_file>>
    /\ UNCHANGED OcOthers

\* main: p.is_alive() is false and q.empty(): WORKER_CRASHED, continue
PCrashed ==
    /\ oc_pc = "alive"
    /\ ~WorkerAlive
    /\ oc_q = <<>>
    /\ oc_log' = [oc_log EXCEPT ![oc_i] = "WORKER_CRASHED"]
    /\ OcAdvance
    /\ UNCHANGED <<oc_wpc, oc_q, oc_file>>
    /\ UNCHANGED OcOthers

\* main: msg = q.get(); log_success or log_error
PGet ==
    /\ oc_pc = "alive"
    /\ ~WorkerAlive
    /\ oc_q # <<>>
    /\ oc_log' = [oc_log EXCEPT ![oc_i] = IF Head(oc_q) = "ok" THEN "OK" ELSE "ERROR"]
    /\ oc_q' = Tail(oc_q)
    /\ OcAdvance
    /\ UNCHANGED <<oc_wpc, oc_file>>
    /\ UNCHANGED OcOthers

OcNext ==
    \/ PStart \/ PJoined \/ PTimeout \/ PAlive \/ PTerminate \/ PCrashed \/ PGet
    \/ WConvert \/ WRaise \/ WCrash \/ WOpen \/ WDump \/ WClose \/ WPut \/ WExcept

InitOrch ==
    /\ OcInit /\ MkIdle /\ UmIdle /\ FxIdle /\ ClIdle /\ KaIdle /\ FmIdle /\ AbIdle
    /\ AfIdle /\ TwIdle /\ FlIdle

SpecOrch == InitOrch /\ [][OcNext]_vars

\* C8: when the timeout of a document fires (its worker is terminated and the
\* document is logged as TIMEOUT), the worker has persisted no output JSON
\* for it, neither complete nor partly written.
C8_TimeoutLeavesNoOutput ==
    \A d \in Docs : oc_log[d] = "TIMEOUT" => oc_file[d] = "absent"

(***************************************************************************)
(* The metadata-region bound of parse_front_matter_page1 as a state        *)
(* machine: find_y for the article-info anchor, find_y for the abstract    *)
(* anchor when "or" passes over the first, and the default for None        *)
(***************************************************************************)
MaxAbLines == 3

\* the y of the rows a line can sit on, the top of the page included
AbRows == {0, 10, 30, 50}

AbTexts ==
    {"Article info", "A R T I C L E  I N F O", "Abstract", "A B S T R A C T", "Ann Lee"}

\* the Lines of a page, top to bottom as cluster_lines returns them
AbInputs ==
    UNION {
      { [j \in 1..Len(SetToSeq(R)) |-> MkLine(SetToSeq(R)[j], k[SetToSeq(R)[j]], 10)]
        : k \in [R -> AbTexts] }
      : R \in {Q \in SUBSET AbRows : Cardinality(Q) <= MaxAbLines} }

AbInit ==
    /\ ab_lines \in AbInputs
    /\ ab_H = 100
    /\ ab_r = <<>>
    /\ ab_y100 = 0
    /\ ab_pc = "artinfo"

AbOthers ==
    <<mkVars, umVars, fxVars, clVars, kaVars, fmVars, ocVars, afVars, twVars,
      flVars>>

\* Python's truth value of an optional number: None and 0 are false
Truthy(r) == r # <<>> /\ r[1] # 0

\* find_y(lines, RE_ARTINFO) is true: "or" yields it
AbArtinfo ==
    /\ ab_pc = "artinfo"
    /\ Truthy(find_y(ab_lines, RE_ARTINFO))
    /\ ab_r' = find_y(ab_lines, RE_ARTINFO)
    /\ ab_pc' = "check"
    /\ UNCHANGED <<ab_lines, ab_H, ab_y100>>
    /\ UNCHANGED AbOthers

\* find_y(lines, RE_ARTINFO) is None or 0: "or" yields find_y(lines, RE_ABS_HDR)
AbAbstract ==
    /\ ab_pc = "artinfo"
    /\ ~Truthy(find_y(ab_lines, RE_ARTINFO))
    /\ ab_r' = find_y(ab_lines, RE_ABS_HDR)
    /\ ab_pc' = "check"
    /\ UNCHANGED <<ab_lines, ab_H, ab_y100>>
    /\ UNCHANGED AbOthers

\* absinfo_y is None: H * 0.62
AbDefault ==
    /\ ab_pc = "check"
    /\ ab_r = <<>>
    /\ ab_y100' = 62 * ab_H
    /\ ab_pc' = "done"
    /\ UNCHANGED <<ab_lines, ab_H, ab_r>>
    /\ UNCHANGED AbOthers

\* absinfo_y is not None
AbKeep ==
    /\ ab_pc = "check"
    /\ ab_r # <<>>
    /\ ab_y100' = 100 * ab_r[1]
    /\ ab_pc' = "done"
    /\ UNCHANGED <<ab_lines, ab_H, ab_r>>
    /\ UNCHANGED AbOthers

AbNext == AbArtinfo \/ AbAbstract \/ AbDefault \/ AbKeep

InitBound ==
    /\ AbInit /\ MkIdle /\ UmIdle /\ FxIdle /\ ClIdle /\ KaIdle /\ FmIdle /\ OcIdle
    /\ AfIdle /\ TwIdle /\ FlIdle

SpecBound == InitBound /\ [][AbNext]_vars

\* the y of the lines that match the article-info or the abstract anchor
AnchorYs(lines) ==
    {lines[j].y : j \in {k \in 1..Len(lines) :
                            Search(RE_ARTINFO, lines[k].text)
                            \/ Search(RE_ABS_HDR, lines[k].text)}}

\* the steps compute what the expression of parse_front_matter_page1 computes
AbAgrees == ab_pc = "done" => ab_y100 = absinfo_y100(ab_lines, ab_H)

\* C11: the metadata-region bound is the y of the first line, top to bottom,
\* that matches the article-info anchor or the abstract anchor, and 62% of
\* the page height when no line matches either.
C11_FirstAnchorBound ==
    ab_pc = "done" =>
        ab_y100 = IF AnchorYs(ab_lines) = {} THEN 62 * ab_H
                  ELSE 100 * Min(AnchorYs(ab_lines))

(***************************************************************************)
(* Claims on the marker path, continued                                    *)
(***************************************************************************)
\* C12: after a comma token is processed the in-progress accumulator is a
\* fresh one (no name parts, no markers, corresponding false), also when the
\* accumulator the comma closes has no name part and is discarded.
C12_CommaStartsFresh == [][MkComma => mk_st'.cur = NewCur]_vars

\* the kind of a token: "comma", "star", "marker" or "name"
TokKind(tok) ==
    IF tok = "," THEN "comma"
    ELSE IF tok \in AsteriskSet THEN "star"
    ELSE IF (Len(tok) = 1 /\ tok \in LowerSet \cup SupSet) \/ IsDigits(tok) THEN "marker"
    ELSE "name"

RECURSIVE Groups(_, _, _)
\* the groups of the tokens from token j on, as ranges [from, to] of token
\* indexes, the group in progress starting at token s: a group is closed by
\* the first comma that follows a name token of it, or by the end of the
\* tokens if it has a name token
Groups(toks, s, j) ==
    LET named == \E i \in s..(j - 1) : TokKind(toks[i]) = "name" IN
    IF j > Len(toks)
    THEN (IF named THEN <<[from |-> s, to |-> Len(toks)]>> ELSE <<>>)
    ELSE IF toks[j] = "," /\ named
    THEN <<[from |-> s, to |-> j - 1]>> \o Groups(toks, j + 1, j + 1)
    ELSE Groups(toks, s, j + 1)

\* the tokens of a kind in a group, in order
GroupToks(toks, g, kind) ==
    SelectSeq(SubSeq(toks, g.from, g.to), LAMBDA t : TokKind(t) = kind)

\* the name a group gives
GroupName(toks, g) == fix_merged_text(Strip(Join(GroupToks(toks, g, "name"), " ")))

\* the groups whose name is kept: not empty and not like an affiliation
EmittedGroups(toks) ==
    SelectSeq(Groups(toks, 1, 1),
              LAMBDA g : GroupName(toks, g) # ""
                         /\ ~is_likely_affiliation(GroupName(toks, g)))

\* C20: no name part in the accumulator is an asterisk, a single lowercase
\* letter, a digit sequence or a superscript digit; every emitted Author is
\* the Author of one group of tokens: its name is made of the name tokens of
\* the group, its markers are the single lowercase letters and the digit
\* sequences of the group, superscript digits in their plain form, each a
\* lowercase letter or a string of plain digits, sorted and without
\* duplicates, and corresponding is true exactly when the group has an
\* asterisk.
C20_TokenClasses ==
    /\ \A p \in Range(mk_st.cur.name_parts) : TokKind(p) = "name"
    /\ mk_pc = "done" =>
         LET gs == EmittedGroups(mk_tokens) IN
         /\ Len(mk_out) = Len(gs)
         /\ \A k \in 1..Len(mk_out) :
              LET a == mk_out[k] IN
              /\ a.name = GroupName(mk_tokens, gs[k])
              /\ a.corresponding = (GroupToks(mk_tokens, gs[k], "star") # <<>>)
              /\ Range(a.markers)
                   = {MapChars(t, [c \in CharSet(t) |-> SupToDigit(c)]) :
                         t \in Range(GroupToks(mk_tokens, gs[k], "marker"))}
              /\ \A m \in Range(a.markers) :
                    (Len(m) = 1 /\ m \in LowerSet) \/ IsDigits(m)
              /\ \A i \in 1..(Len(a.markers) - 1) :
                    StrLess(a.markers[i], a.markers[i + 1])

\* C20 witness: one Author whose group holds a digit sequence, a lowercase
\* letter and an asterisk, on two lines
C20_Witness ==
    /\ mk_pc = "done"
    /\ Len(mk_lines) = 2
    /\ mk_out = <<[name |-> "Jane", markers |-> <<"1", "a">>, corresponding |-> TRUE]>>

(***************************************************************************)
(* parse_affiliations_with_markers as a state machine.  A Line's text is   *)
(* never blank (cluster_lines keeps no such Line), so "if not t: continue" *)
(* has no action of its own.                                               *)
(***************************************************************************)
MaxAfLines == 3

AfTexts ==
    {"a University of Oz", "aDepartment of Physics", "aDe", "bMIT", "Main Street 5",
     "Abstract"}

\* aff_lines: Lines top to bottom, as cluster_lines returns them
AfInputs ==
    UNION { {[j \in 1..n |-> MkLine(10 * j, f[j], 10)] : f \in [1..n -> AfTexts]}
            : n \in 0..MaxAfLines }

AfInit ==
    /\ af_lines \in AfInputs
    /\ af_i = 0
    /\ af_st = [affiliations |-> <<>>, last_key |-> "", stopped |-> FALSE]
    /\ af_out = <<>>
    /\ af_pc = "loop"

AfOthers ==
    <<mkVars, umVars, fxVars, clVars, kaVars, fmVars, ocVars, abVars, twVars,
      flVars>>

\* t of the line the loop is at
AfText == Strip(af_lines[af_i + 1].text)

AfAdvance ==
    /\ af_st' = AffStep(af_st, af_lines[af_i + 1])
    /\ af_i' = af_i + 1
    /\ UNCHANGED <<af_lines, af_out, af_pc>>
    /\ UNCHANGED AfOthers

AfAt == af_pc = "loop" /\ af_i < Len(af_lines) /\ ~af_st.stopped

\* the line matches an anchor: break
AfStop == AfAt /\ IsStopLine(AfText) /\ AfAdvance

\* m: a letter, whitespace, the text
AfKeySpace == AfAt /\ ~IsStopLine(AfText) /\ Match(RE_KEY_SPACE, AfText) /\ AfAdvance

\* m2: a letter directly followed by a capital
AfKeyGlued ==
    /\ AfAt /\ ~IsStopLine(AfText)
    /\ ~Match(RE_KEY_SPACE, AfText) /\ Match(RE_KEY_GLUED, AfText)
    /\ AfAdvance

\* neither: the line continues the entry of last_key
AfContinue ==
    /\ AfAt /\ ~IsStopLine(AfText)
    /\ ~Match(RE_KEY_SPACE, AfText) /\ ~Match(RE_KEY_GLUED, AfText)
    /\ af_st.last_key # ""
    /\ AfAdvance

\* neither, and no entry is open: the line is dropped
AfDrop ==
    /\ AfAt /\ ~IsStopLine(AfText)
    /\ ~Match(RE_KEY_SPACE, AfText) /\ ~Match(RE_KEY_GLUED, AfText)
    /\ af_st.last_key = ""
    /\ AfAdvance

\* the end of the loop, by break or by exhaustion
AfFinish ==
    /\ af_pc = "loop"
    /\ af_st.stopped \/ af_i = Len(af_lines)
    /\ af_out' = af_st.affiliations
    /\ af_pc' = "done"
    /\ UNCHANGED <<af_lines, af_i, af_st>>
    /\ UNCHANGED AfOthers

AfNext == AfStop \/ AfKeySpace \/ AfKeyGlued \/ AfContinue \/ AfDrop \/ AfFinish

InitAff ==
    /\ AfInit /\ MkIdle /\ UmIdle /\ FxIdle /\ ClIdle /\ KaIdle /\ FmIdle /\ OcIdle
    /\ AbIdle /\ TwIdle /\ FlIdle

SpecAff == InitAff /\ [][AfNext]_vars

\* the steps compute what the function computes
AfAgrees == af_pc = "done" => af_out = parse_affiliations_with_markers(af_lines)

\* ^\s*[a-z][A-Z], the second pattern that makes the zone scan set has_markers
RE_MARKER_GLUED == { Bol \o Star(WS) \o One(LowerSet) \o One(UpperSet) }

\* C13: a line that begins with a lowercase letter directly followed by a
\* capital letter and further text opens an affiliation entry keyed by that
\* letter whose text is the rest of the line, as a line with whitespace after
\* the letter does.
C13_GluedKeyOpensEntry ==
    [][(/\ AfAt /\ ~IsStopLine(AfText)
        /\ Match(RE_MARKER_GLUED, AfText)
        /\ af_i' = af_i + 1)
       => /\ af_st'.last_key = Ch(AfText, 1)
          /\ Ch(AfText, 1) \in DOMAIN af_st'.affiliations
          /\ af_st'.affiliations[Ch(AfText, 1)] = fix_merged_text(Strip(Tail(AfText)))]_vars

(***************************************************************************)
(* Claims on parse_front_matter_page1, continued                           *)
(***************************************************************************)
\* the zone has been scanned and split
FmSplitDone == fm_pc \in {"resolve", "kwabs", "done", "raised"} /\ fm_top # <<>>

\* the indexes of the zone lines that match an anchor, the letter-marker
\* pattern or an affiliation cue
Qualifying(zone) ==
    {j \in 1..Len(zone) :
        \/ IsStopLine(Strip(zone[j].text))
        \/ Match(RE_MARKER_LINE, Strip(zone[j].text))
        \/ Search(AFF_CUES, Strip(zone[j].text))}

\* the number of author lines the zone is to have
AuthorCount(zone) ==
    IF Qualifying(zone) # {} THEN Min(Qualifying(zone)) - 1
    ELSE IF Len(zone) < 2 THEN Len(zone) ELSE 2

\* the first qualifying line matches the letter-marker pattern and no anchor
MarkerFirst(zone) ==
    /\ Qualifying(zone) # {}
    /\ Match(RE_MARKER_LINE, Strip(zone[Min(Qualifying(zone))].text))
    /\ ~IsStopLine(Strip(zone[Min(Qualifying(zone))].text))

TitleWindow ==
    InWindow(find_header_end_y100(fm_lines, fm_H), TRUE,
             content_end_y100(fm_lines, fm_H))

\* C16: the core never raises: max_font is computed over a non-empty window
\* only, the keywords and abstract slices are never empty when their first
\* line is read, and every page yields a record of five strings; for the
\* empty page, and whenever no non-banner line falls inside the title window,
\* the title, authors and affiliations of the record are empty.
C16_NothingFatal ==
    /\ fm_pc # "raised"
    /\ fm_pc = "title" => fm_top # <<>>
    /\ fm_pc = "done" =>
         /\ DOMAIN fm_rec = {"title", "authors", "affiliations", "keywords", "abstract"}
         /\ \A f \in DOMAIN fm_rec : fm_rec[f] \in STRING
         /\ (fm_lines = <<>> \/ TitleWindow = {}) =>
               fm_rec.title = "" /\ fm_rec.authors = "" /\ fm_rec.affiliations = ""

\* C16 witness: a page whose only lines lie below the title window: the
\* record has keywords and an abstract but no title, authors or affiliations
C16_Witness ==
    /\ fm_pc = "done"
    /\ fm_lines # <<>> /\ TitleWindow = {}
    /\ fm_rec.title = "" /\ fm_rec.authors = "" /\ fm_rec.affiliations = ""
    /\ fm_rec.keywords = "ml"
    /\ fm_rec.abstract # ""

(***************************************************************************)
(* Claims on cluster_lines, continued                                      *)
(***************************************************************************)
\* a text that is not empty, neither starts nor ends with whitespace and has
\* no two whitespace characters in a row
CleanText(t) ==
    /\ t # ""
    /\ Ch(t, 1) \notin WS /\ Ch(t, Len(t)) \notin WS
    /\ \A i \in 1..(Len(t) - 1) : ~(Ch(t, i) \in WS /\ Ch(t, i + 1) \in WS)

\* C17: whatever the order of the words, the Lines cluster_lines returns are
\* sorted by ascending y, and the text of every Line is non-empty, has no
\* leading or trailing whitespace and no two consecutive whitespace
\* characters.
C17_LineInvariant ==
    cl_pc = "done" =>
        /\ \A j \in 1..(Len(cl_lines) - 1) : cl_lines[j].y <= cl_lines[j + 1].y
        /\ \A j \in 1..Len(cl_lines) : CleanText(cl_lines[j].text)

\* C17 witness: the lower line comes first in the input, and the upper line
\* has two words further apart than x_tol, joined by an explicit space part
C17_Witness ==
    /\ cl_pc = "done"
    /\ Len(cl_words) = 3
    /\ cl_words[1].top = 6
    /\ Len(cl_lines) = 2
    /\ cl_lines[1].y = 0 /\ cl_lines[1].text = "b c"
    /\ cl_lines[2].y = 6

(***************************************************************************)
(* The loop body of main, run NRuns times on the words of one first page.  *)
(* Each run may be a new interpreter process, with a string-hash seed of   *)
(* its own.  A run is a run of the machine of parse_front_matter_page1     *)
(* and the record of main above, on the variables the run before it left.  *)
(***************************************************************************)
NRuns == 2

Seeds == {0, 1}

\* the y of the rows of the page, top to bottom
TwRows == <<10, 30, 50>>

\* what a row can print: [text, size]; nothing for the text ""
TwNone == [text |-> "", size |-> 0]
TwTitle == [text |-> "Deep Nets", size |-> 16]
TwAuthors == [text |-> "Ann Lee 2 1 ~, Bob Ray 1", size |-> 10]
TwAff == [text |-> "a University of Oz", size |-> 10]
TwKw == [text |-> "Keywords: ml", size |-> 10]
TwAbs == [text |-> "Abstract We propose", size |-> 10]

\* per row, what it can print
TwKinds ==
    << {TwNone, TwTitle}, {TwNone, TwAuthors, TwAff, TwKw}, {TwNone, TwAff, TwKw, TwAbs} >>

\* the words printed on a row: the tokens of the text, left to right, two
\* units apart
RowWords(y, kind) ==
    [k \in 1..Len(SplitWS(kind.text)) |->
        [top |-> y, x0 |-> 10 * k, x1 |-> 10 * k + 8,
         text |-> SplitWS(kind.text)[k], size |-> kind.size]]

RECURSIVE PageWords(_, _)
\* the words of the rows j.. of a page, top to bottom; ks[j] is printed on
\* row j
PageWords(ks, j) ==
    IF j > Len(ks) THEN <<>> ELSE RowWords(TwRows[j], ks[j]) \o PageWords(ks, j + 1)

TwInputs ==
    {PageWords(ks, 1) :
        ks \in {f \in [1..Len(TwRows) -> UNION Range(TwKinds)] :
                  \A j \in 1..Len(TwRows) : f[j] \in TwKinds[j]}}

TwInit ==
    /\ tw_words \in TwInputs
    /\ tw_H = 100
    /\ tw_seeds = <<>>
    /\ tw_out = <<>>
    /\ tw_pc = "begin"

TwOthers ==
    <<mkVars, umVars, fxVars, clVars, kaVars, ocVars, abVars, afVars, flVars>>

\* a run starts: the page is opened and its words are clustered
TwBegin ==
    /\ tw_pc = "begin"
    /\ Len(tw_out) < NRuns
    /\ \E seed \in Seeds : tw_seeds' = Append(tw_seeds, seed)
    /\ fm_lines' = IF tw_words # <<>> THEN cluster_lines(tw_words, Y_TOL, X_TOL) ELSE <<>>
    /\ fm_H' = tw_H
    /\ fm_pc' = "window"
    /\ tw_pc' = "run"
    /\ UNCHANGED <<fm_top, fm_cands, fm_title, fm_zone, fm_split, fm_rec>>
    /\ UNCHANGED <<tw_words, tw_H, tw_out>>
    /\ UNCHANGED TwOthers

\* the steps of the run
TwStep == tw_pc = "run" /\ FmNext

\* the run ends: its record is written, or its exception logged
TwRecord ==
    /\ tw_pc = "run"
    /\ fm_pc \in {"done", "raised"}
    /\ tw_out' = Append(tw_out, IF fm_pc = "raised" THEN [error |-> TRUE] ELSE fm_rec)
    /\ tw_pc' = "begin"
    /\ UNCHANGED <<tw_words, tw_H, tw_seeds>>
    /\ UNCHANGED fmVars
    /\ UNCHANGED TwOthers

TwNext == TwBegin \/ TwStep \/ TwRecord

InitTwice ==
    /\ TwInit /\ MkIdle /\ UmIdle /\ FxIdle /\ ClIdle /\ KaIdle /\ FmIdle /\ OcIdle
    /\ AbIdle /\ AfIdle /\ FlIdle

SpecTwice == InitTwice /\ [][TwNext]_vars

XTols == {0, X_TOL, 100}

\* t is the texts of the words ws in an ascending x0 order, one space between
SpacedAscending(t, ws) ==
    \E p \in Perms(Len(ws)) :
        /\ \A i \in 1..(Len(ws) - 1) : ws[p[i]].x0 <= ws[p[i + 1]].x0
        /\ t = Join([i \in 1..Len(ws) |-> ws[p[i]].text], " ")

\* C23: the words' texts holding no whitespace, cluster_lines returns the
\* same Lines for every value of x_tol, and the text of each Line is the
\* texts of the words of its bucket in ascending x0 order, one space between
\* two words whatever the gap between them.
C23_XTolNoEffect ==
    cl_pc = "done" =>
        /\ \A x \in XTols : cluster_lines(cl_words, Y_TOL, x) = cl_lines
        /\ LET bks == SortByField(cl_buckets, "y") IN
           /\ Len(cl_lines) = Len(bks)
           /\ \A j \in 1..Len(bks) : SpacedAscending(cl_lines[j].text, bks[j].ws)

\* C23 witness: one line of three words given right to left, the gaps 1 and
\* 11 on either side of the default x_tol, so that the parts of the line
\* differ between the tolerances and its text does not
C23_Witness ==
    /\ cl_pc = "done"
    /\ Len(cl_words) = 3 /\ Len(cl_buckets) = 1
    /\ cl_words[1].text = "c" /\ cl_words[2].text = "b" /\ cl_words[3].text = "a"
    /\ LET ws == SortByField(cl_buckets[1].ws, "x0") IN
       /\ LineParts(ws, 0) # LineParts(ws, X_TOL)
       /\ LineParts(ws, X_TOL) # LineParts(ws, 100)
    /\ Len(cl_lines) = 1 /\ cl_lines[1].text = "a b c"

(***************************************************************************)
(* Claims on parse_affiliations_with_markers, continued                    *)
(***************************************************************************)
\* the stripped line starts with a lowercase letter and whitespace
SpacedKey(t) == Len(t) >= 2 /\ Ch(t, 1) \in LowerSet /\ Ch(t, 2) \in WS

\* the stripped line starts with a lowercase letter directly followed by a
\* capital: the glued key of C13
GluedKey(t) == Len(t) >= 2 /\ Ch(t, 1) \in LowerSet /\ Ch(t, 2) \in UpperSet

\* the map d with the entry of k set to v, whether or not d had one
Keyed(d, k, v) == [x \in DOMAIN d \cup {k} |-> IF x = k THEN v ELSE d[x]]

\* the line of text t opens or overwrites the entry of its first letter
OpensEntry(t, old, new, last2) ==
    /\ last2 = Ch(t, 1)
    /\ new = Keyed(old, Ch(t, 1), fix_merged_text(Strip(Tail(t))))

\* the line of text t continues the entry of the open key last, or is dropped
\* when no key is open (last = "")
ContinuesEntry(t, old, last, new, last2) ==
    /\ last2 = last
    /\ new = IF last = "" THEN old
             ELSE Keyed(old, last, old[last] \o " " \o fix_merged_text(t))

\* what one iteration of the loop on the line of text t may do, from the map
\* old and the open key last to the map new and the key last2.  A line with
\* a glued key goes one of the two ways; which one is the matter of C13.
KeyedLineStep(t, old, last, new, last2, stopped2) ==
    IF IsStopLine(t) THEN stopped2 /\ new = old
    ELSE IF SpacedKey(t) THEN ~stopped2 /\ OpensEntry(t, old, new, last2)
    ELSE IF GluedKey(t)
    THEN /\ ~stopped2
         /\ OpensEntry(t, old, new, last2) \/ ContinuesEntry(t, old, last, new, last2)
    ELSE ~stopped2 /\ ContinuesEntry(t, old, last, new, last2)

\* C22: the affiliation lines taken in order, a line that starts with a
\* lowercase letter and whitespace opens or overwrites the entry of that
\* letter; a line without a leading key is appended after one space to the
\* entry opened last, and dropped when none is open; the first line matching
\* an anchor ends the processing, so that neither it nor a later line reaches
\* the map; every key of the map is one lowercase letter.
C22_KeyedAffiliations ==
    /\ [](DOMAIN af_st.affiliations \subseteq LowerSet)
    /\ [](af_pc = "done" =>
            /\ af_out = af_st.affiliations
            /\ DOMAIN af_out \subseteq LowerSet
            /\ af_st.stopped \/ af_i = Len(af_lines))
    /\ [][/\ af_st.stopped => af_i' = af_i /\ af_st' = af_st
          /\ af_i' # af_i =>
                /\ af_i' = af_i + 1
                /\ KeyedLineStep(AfText, af_st.affiliations, af_st.last_key,
                                 af_st'.affiliations, af_st'.last_key,
                                 af_st'.stopped)]_vars

\* C22 witness: an entry is opened, a line without a key is appended to it,
\* and the anchor line that follows stops the loop
C22_Witness ==
    /\ af_pc = "done"
    /\ Len(af_lines) = 3
    /\ af_lines[1].text = "a University of Oz"
    /\ af_lines[2].text = "Main Street 5"
    /\ af_lines[3].text = "Abstract"
    /\ af_st.stopped
    /\ af_out = [a |-> "University of Oz Main Street 5"]

(***************************************************************************)
(* flatten_authors, one iteration of its loop at a time, on the Author     *)
(* lists the parsers can return: names trimmed, markers sorted.            *)
(***************************************************************************)
MaxAuthors == 3

FlAuthors ==
    { Author("", <<"1">>, TRUE),
      Author("Bob", <<>>, FALSE), Author("Bob", <<"a">>, TRUE) }
    \cup { Author("Ann Lee", m, c) :
             m \in {<<>>, <<"1", "2">>, <<"12", "a">>}, c \in BOOLEAN }

FlInputs == UNION { [1..n -> FlAuthors] : n \in 0..MaxAuthors }

FlInit ==
    /\ fl_authors \in FlInputs
    /\ fl_i = 0
    /\ fl_parts = <<>>
    /\ fl_out = ""
    /\ fl_pc = "loop"

FlOthers ==
    <<mkVars, umVars, fxVars, clVars, kaVars, fmVars, ocVars, abVars, afVars, twVars>>

\* the list is empty: "" is returned before the loop
FlEmpty ==
    /\ fl_pc = "loop" /\ fl_authors = <<>>
    /\ fl_out' = ""
    /\ fl_pc' = "done"
    /\ UNCHANGED <<fl_authors, fl_i, fl_parts>>
    /\ UNCHANGED FlOthers

FlAt == fl_pc = "loop" /\ fl_i < Len(fl_authors)

\* the name is empty once stripped: continue
FlSkip ==
    /\ FlAt /\ AuthorEntry(fl_authors[fl_i + 1]) = <<>>
    /\ fl_i' = fl_i + 1
    /\ UNCHANGED <<fl_authors, fl_parts, fl_out, fl_pc>>
    /\ UNCHANGED FlOthers

\* the name, its numeric markers as superscripts and the asterisk of a
\* corresponding author are appended to parts
FlEntry ==
    /\ FlAt /\ AuthorEntry(fl_authors[fl_i + 1]) # <<>>
    /\ fl_parts' = fl_parts \o AuthorEntry(fl_authors[fl_i + 1])
    /\ fl_i' = fl_i + 1
    /\ UNCHANGED <<fl_authors, fl_out, fl_pc>>
    /\ UNCHANGED FlOthers

\* the loop is over: ", ".join(parts).strip()
FlReturn ==
    /\ fl_pc = "loop" /\ fl_authors # <<>> /\ fl_i = Len(fl_authors)
    /\ fl_out' = Strip(Join(fl_parts, ", "))
    /\ fl_pc' = "done"
    /\ UNCHANGED <<fl_authors, fl_i, fl_parts>>
    /\ UNCHANGED FlOthers

FlNext == FlEmpty \/ FlSkip \/ FlEntry \/ FlReturn

InitFlatten ==
    /\ FlInit /\ MkIdle /\ UmIdle /\ FxIdle /\ ClIdle /\ KaIdle /\ FmIdle /\ OcIdle
    /\ AbIdle /\ AfIdle /\ TwIdle

SpecFlatten == InitFlatten /\ [][FlNext]_vars

\* the steps compute what the function computes
FlAgrees == fl_pc = "done" => fl_out = flatten_authors(fl_authors)

\* the superscript characters of the digits of the string m
Superscripts(m) ==
    Concat([i \in 1..Len(m) |-> Ch(SupChars, IndexIn(Digits, Ch(m, i)))], 1, Len(m))

\* a digit marker: one or more digits and nothing else
DigitMarker(m) == m # "" /\ \A i \in 1..Len(m) : Ch(m, i) \in DigitSet

\* the display of one author: the name, the digit markers in superscript, and
\* " ~" when the author is corresponding
Display(a) ==
    a.name
    \o Concat([j \in 1..Len(a.markers) |->
                 IF DigitMarker(a.markers[j]) THEN Superscripts(a.markers[j]) ELSE ""],
              1, Len(a.markers))
    \o (IF a.corresponding THEN " ~" ELSE "")

HasName(a) == a.name # ""

\* C21: flatten_authors returns the entries of the authors with a non-empty
\* name, in list order, joined by ", "; an entry is the name, then its digit
\* markers as superscript characters, then the asterisk exactly when the
\* author is corresponding; an author without a name contributes nothing, a
\* letter marker is not rendered, and the empty list gives "".
C21_FlattenAuthors ==
    fl_pc = "done" =>
        LET named == SelectSeq(fl_authors, HasName) IN
        /\ fl_out = Join([k \in 1..Len(named) |-> Display(named[k])], ", ")
        /\ fl_authors = <<>> => fl_out = ""
        /\ \A i \in 1..Len(fl_out) : Ch(fl_out, i) \notin DigitSet

\* C21 witness: a corresponding author with a digit and a letter marker, an
\* author without a name, and an author with letter markers only
C21_Witness ==
    /\ fl_pc = "done"
    /\ fl_authors = << Author("Ann Lee", <<"12", "a">>, TRUE),
                       Author("", <<"1">>, TRUE),
                       Author("Bob", <<"a">>, TRUE) >>
    /\ fl_out = "Ann Lee!@ ~, Bob ~"

=============================================================================
